---------------------------- MODULE Spec2Model ----------------------------
(***************************************************************************)
(* State-machine model of the GEO data pipeline of the backend:            *)
(*   - DataParser / DataDownloader .decompressFile  (data-parser.js)       *)
(*   - DataDownloader.downloadDataset                (data-parser.js)      *)
(*   - AdvancedAnalyzer.getDataset and its cache     (advanced-analyzer.js)*)
(*   - the pure parsers and queries of DataParser    (data-parser.js)      *)
(* Every asynchronous function is cut at its await points: one action per  *)
(* stretch of code that runs between two awaits.                           *)
(***************************************************************************)
EXTENDS Integers, Sequences, FiniteSets, TLC

VARIABLES
    disk,     \* disk[id][name]: content of file `name` in directory ./data/<id>
    dirs,     \* the dataset directories that exist
    dz,       \* dz[p]: the decompressFile invocation of process p
    zhist,    \* zhist[p]: what the finished decompressFile invocations of p returned
    dl,       \* dl[d]: the downloadDataset run d
    calls,    \* calls[c]: the getDataset call of caller c
    cache,    \* AdvancedAnalyzer.cache: dataset id -> parsed dataset
    stored,   \* history: the first result stored for an id since its last clearing
    mx,       \* the parseSeriesMatrix run: input lines, position, locals, result
    sf,       \* the parseSOFTFile run: input lines, position, locals, result
    gq,       \* the queryGeneExpression call: rows, query, result
    st,       \* the getSampleStatistics call: rows, samples, result
    qa,       \* the getStatistics / queryGene call of AdvancedAnalyzer
    th        \* the POST /api/threads requests and the threads they created

diskVars == <<disk, dirs>>
dzVars == <<dz, zhist>>
anVars == <<calls, cache, stored>>
opVars == <<qa, th>>
pureVars == <<mx, sf, gq, st, opVars>>
sysVars == <<disk, dirs, dz, zhist, dl, calls, cache, stored, opVars>>
vars == <<disk, dirs, dz, zhist, dl, calls, cache, stored, mx, sf, gq, st, qa, th>>

None == "none"

(***************************************************************************)
(* Bounds of the model.                                                    *)
(***************************************************************************)
MaxInvocations == 2     \* decompressFile invocations one direct caller makes

(***************************************************************************)
(* Identifiers, file names and the disk.                                   *)
(* A file name is the sequence of its parts, so that includes(), endsWith()*)
(* and replace('.gz', '') are computed on the name instead of assumed.     *)
(***************************************************************************)
Ids == {"GSE1", "GSE2"}

MatrixGz == <<"series_matrix", ".txt", ".gz">>
SoftGz == <<"family.", "soft", ".gz">>

Includes(name, part) == \E i \in 1..Len(name) : name[i] = part

EndsWith(name, part) == Len(name) > 0 /\ name[Len(name)] = part

FirstIndex(name, part) ==
    IF Includes(name, part)
    THEN CHOOSE i \in 1..Len(name) :
            name[i] = part /\ \A j \in 1..(i - 1) : name[j] # part
    ELSE 0

\* String.prototype.replace(part, ''): only the first occurrence goes.
RemoveFirst(name, part) ==
    LET k == FirstIndex(name, part)
    IN  IF k = 0 THEN name
        ELSE SubSeq(name, 1, k - 1) \o SubSeq(name, k + 1, Len(name))

OutputPathKeepGz(gzName) == gzName

OutputPath(gzName) == RemoveFirst(gzName, ".gz")

FileNames == {MatrixGz, SoftGz, OutputPath(MatrixGz), OutputPath(SoftGz)}

Contents == {"absent", "partial", "full"}

EmptyDir == [n \in FileNames |-> "absent"]

Exists(id, name) == disk[id][name] # "absent"

FilesIn(id) == {n \in FileNames : disk[id][n] # "absent"}

(***************************************************************************)
(* decompressFile(gzFilePath): DataParser (lines 16-40) and DataDownloader *)
(* (lines 625-648) hold the same code.  One invocation per process p:      *)
(*   idle -> check (await fs.access) -> ret                (output exists) *)
(*                                   -> open -> pipe -> ret | threw        *)
(* createWriteStream opens the output with flag 'w', so the file exists,   *)
(* truncated, from the moment it is opened until the pipeline has written  *)
(* all of it.                                                              *)
(***************************************************************************)
DzProcs == {"z1", "z2", "c1", "c2", "d1", "d2"}

DzIdle == [pc |-> "idle", id |-> None, gz |-> <<>>, out |-> <<>>,
           sawExists |-> FALSE, wrote |-> FALSE, ret |-> <<>>]

\* The synchronous head of decompressFile: outputPath, then await fs.access.
DzEnter(p, id, gzName) ==
    [pc |-> "check", id |-> id, gz |-> gzName, out |-> OutputPath(gzName),
     sawExists |-> FALSE, wrote |-> FALSE, ret |-> <<>>]

Writers(id, name) ==
    {q \in DzProcs : dz[q].pc = "pipe" /\ dz[q].id = id /\ dz[q].out = name}

DzCheckUngated(p) ==
    /\ dz[p].pc = "check"
    /\ dz' = [dz EXCEPT ![p].pc = "open",
                        ![p].sawExists = Exists(dz[p].id, dz[p].out)]
    /\ UNCHANGED <<disk, dirs, zhist, dl, anVars, pureVars>>

\* fs.access(outputPath) has answered.
DzCheck(p) ==
    /\ dz[p].pc = "check"
    /\ IF Exists(dz[p].id, dz[p].out)
       THEN dz' = [dz EXCEPT ![p].pc = "ret", ![p].sawExists = TRUE,
                             ![p].ret = dz[p].out]
       ELSE dz' = [dz EXCEPT ![p].pc = "open"]
    /\ UNCHANGED <<disk, dirs, zhist, dl, anVars, pureVars>>

\* pipeline(...) has opened its streams: the output file is created or truncated.
DzOpen(p) ==
    /\ dz[p].pc = "open"
    /\ disk' = [disk EXCEPT ![dz[p].id][dz[p].out] = "partial"]
    /\ dz' = [dz EXCEPT ![p].pc = "pipe", ![p].wrote = TRUE]
    /\ UNCHANGED <<dirs, zhist, dl, anVars, pureVars>>

\* The pipeline has written everything.  While another pipeline still writes
\* the same file (it truncated it when it opened), the bytes on disk are
\* complete only if that writer is already past what this one wrote.
DzFinish(p) ==
    /\ dz[p].pc = "pipe"
    /\ disk[dz[p].id][dz[p].gz] = "full"
    /\ \E c \in (IF Writers(dz[p].id, dz[p].out) = {p}
                 THEN {"full"} ELSE {"partial", "full"}) :
          disk' = [disk EXCEPT ![dz[p].id][dz[p].out] = c]
    /\ dz' = [dz EXCEPT ![p].pc = "ret", ![p].ret = dz[p].out]
    /\ UNCHANGED <<dirs, zhist, dl, anVars, pureVars>>

\* An I/O or format error ends the pipeline: what was written stays on disk.
DzFail(p) ==
    /\ dz[p].pc = "pipe"
    /\ dz' = [dz EXCEPT ![p].pc = "threw"]
    /\ UNCHANGED <<disk, dirs, zhist, dl, anVars, pureVars>>

(***************************************************************************)
(* Direct callers of decompressFile: each invokes it on one compressed     *)
(* file of one dataset, MaxInvocations times in sequence.                  *)
(***************************************************************************)
Direct == {"z1", "z2"}

ZCall(p, id, gzName) ==
    /\ dz[p].pc = "idle"
    /\ Len(zhist[p]) < MaxInvocations
    /\ \A k \in 1..Len(zhist[p]) : zhist[p][k].gz = gzName /\ zhist[p][k].id = id
    /\ dz' = [dz EXCEPT ![p] = DzEnter(p, id, gzName)]
    /\ UNCHANGED <<disk, dirs, zhist, dl, anVars, pureVars>>

ZReturn(p) ==
    /\ dz[p].pc \in {"ret", "threw"}
    /\ zhist' = [zhist EXCEPT ![p] = Append(@,
                    [id |-> dz[p].id, gz |-> dz[p].gz, ret |-> dz[p].ret,
                     sawExists |-> dz[p].sawExists, wrote |-> dz[p].wrote])]
    /\ dz' = [dz EXCEPT ![p] = DzIdle]
    /\ UNCHANGED <<disk, dirs, dl, anVars, pureVars>>

(***************************************************************************)
(* DataDownloader.downloadDataset(geoId), data-parser.js lines 316-463.    *)
(* The two files are fetched one after the other inside one for loop; every*)
(* emitProgress call of the run is appended to the run's event list.       *)
(***************************************************************************)
Runs == {"d1", "d2"}

NaN == -1

FilesToDownload == <<MatrixGz, SoftGz>>

TotalFiles == Len(FilesToDownload)

\* The content-length header values the server may send (None: no header).
Headers == {None, "0", "2", "3"}

\* parseInt(contentLength, 10)
ParseInt(h) ==
    CASE h = "0" -> 0
      [] h = "2" -> 2
      [] h = "3" -> 3
      [] OTHER -> NaN

Truthy(n) == n # NaN /\ n # 0

Responses ==
    {[ok |-> TRUE, status |-> 200, contentLength |-> h] : h \in Headers}
    \cup {[ok |-> FALSE, status |-> 404, contentLength |-> None]}

\* Math.round(x / y * 100) for x >= 0, y > 0: halves round up.
RoundPercent(x, y) == (200 * x + y) \div (2 * y)

NoInfo == [name |-> <<>>, size |-> 0, decompressed |-> <<>>, decompressError |-> FALSE]

DlIdle == [pc |-> "idle", id |-> None, i |-> 0, total |-> NaN, received |-> 0,
           info |-> NoInfo, files |-> <<>>, errors |-> <<>>, events |-> <<>>,
           delivered |-> <<>>, outcomes |-> <<>>]

StartEvent(i) ==
    [stage |-> "downloading", fileIndex |-> i, totalFiles |-> TotalFiles,
     percent |-> 0, receivedBytes |-> NaN, totalBytes |-> NaN,
     downloadedFiles |-> NaN, errors |-> NaN]

ChunkEvent(i, percent, received, total) ==
    [stage |-> "downloading", fileIndex |-> i, totalFiles |-> TotalFiles,
     percent |-> percent, receivedBytes |-> received, totalBytes |-> total,
     downloadedFiles |-> NaN, errors |-> NaN]

DecompressingEvent(i) ==
    [stage |-> "decompressing", fileIndex |-> i, totalFiles |-> TotalFiles,
     percent |-> NaN, receivedBytes |-> NaN, totalBytes |-> NaN,
     downloadedFiles |-> NaN, errors |-> NaN]

\* The registered callbacks in the order forEach would visit them.
CallbackOrder(callbacks) ==
    IF callbacks = {} THEN <<>>
    ELSE IF Cardinality(callbacks) = 1 THEN <<CHOOSE c \in callbacks : TRUE>>
    ELSE <<"GSE1", "GSE2">>

EmitProgressToEvery(callbacks, datasetId, progress) ==
    [k \in 1..Cardinality(callbacks) |->
        [datasetId |-> CallbackOrder(callbacks)[k], progress |-> progress]]

\* emitProgress(datasetId, progress), lines 297-303: the calls of
\* broadcastProgress it causes.  The callback registered under datasetId
\* (lines 784-786) broadcasts under the datasetId of its request.
EmitProgress(callbacks, datasetId, progress) ==
    IF datasetId \in callbacks
    THEN <<[datasetId |-> datasetId, progress |-> progress]>>
    ELSE <<>>

\* this.emitProgress(geoId, ev) in run r; events is history (every call),
\* delivered is what the calls broadcast.
Emit(r, ev) ==
    [r EXCEPT !.events = Append(@, ev),
              !.delivered = @ \o EmitProgress(th.callbacks, r.id, ev)]

CompleteEventCountsAttempts(nFiles, nErrors) ==
    [stage |-> "complete", fileIndex |-> 0, totalFiles |-> TotalFiles,
     percent |-> NaN, receivedBytes |-> NaN, totalBytes |-> NaN,
     downloadedFiles |-> nFiles + nErrors, errors |-> nErrors]

CompleteEvent(nFiles, nErrors) ==
    [stage |-> "complete", fileIndex |-> 0, totalFiles |-> TotalFiles,
     percent |-> NaN, receivedBytes |-> NaN, totalBytes |-> NaN,
     downloadedFiles |-> nFiles, errors |-> nErrors]

AfterFileCompleteEachTime(r) ==
    IF r.i < TotalFiles
    THEN [r EXCEPT !.i = r.i + 1, !.pc = "fetch", !.total = NaN, !.received = 0,
                   !.info = NoInfo,
                   !.events = IF r.i = 0 THEN Append(@, StartEvent(r.i + 1))
                              ELSE Append(Append(@, CompleteEvent(Len(r.files), Len(r.errors))),
                                          StartEvent(r.i + 1))]
    ELSE [r EXCEPT !.pc = "done", !.total = NaN, !.received = 0, !.info = NoInfo,
                   !.events = Append(@, CompleteEvent(Len(r.files), Len(r.errors)))]

\* The end of one loop iteration: the next file's start event and fetch, or,
\* after the last file, the complete event and the return.
AfterFile(r) ==
    IF r.i < TotalFiles
    THEN Emit([r EXCEPT !.i = r.i + 1, !.pc = "fetch", !.total = NaN,
                        !.received = 0, !.info = NoInfo],
              StartEvent(r.i + 1))
    ELSE Emit([r EXCEPT !.pc = "done", !.total = NaN, !.received = 0,
                        !.info = NoInfo],
              CompleteEvent(Len(r.files), Len(r.errors)))

\* catch (error) { errors.push(`${file.name}: ${error.message}`) } and the
\* else branch errors.push(`${file.name}: HTTP ${response.status}`).
\* outcomes is history: how the download of each file ended.
PushError(r, what) ==
    [r EXCEPT !.errors = Append(@, [file |-> FilesToDownload[r.i], what |-> what]),
              !.outcomes = Append(@, what)]

PushFile(r) == [r EXCEPT !.files = Append(@, r.info)]

\* The value downloadDataset returns (lines 453-458).
DlResult(r) ==
    [success |-> Len(r.files) > 0,
     files |-> r.files,
     errors |-> IF Len(r.errors) > 0
                THEN [null |-> FALSE, list |-> r.errors]
                ELSE [null |-> TRUE, list |-> <<>>]]

\* lines 316-320: the run up to `await fs.mkdir(datasetDir, ...)`
DlEnter(id) == [DlIdle EXCEPT !.pc = "mkdir", !.id = id]

DlStart(d, id) ==
    /\ dl[d].pc = "idle"
    /\ dl' = [dl EXCEPT ![d] = DlEnter(id)]
    /\ UNCHANGED <<diskVars, dzVars, anVars, pureVars>>

\* fs.mkdir(datasetDir, {recursive: true}) succeeded: the loop starts.
DlMkdir(d) ==
    /\ dl[d].pc = "mkdir"
    /\ dirs' = dirs \cup {dl[d].id}
    /\ dl' = [dl EXCEPT ![d] = AfterFile([dl[d] EXCEPT !.i = 0])]
    /\ UNCHANGED <<disk, dzVars, anVars, pureVars>>

\* fs.mkdir failed: the outer catch rethrows.
DlMkdirFail(d) ==
    /\ dl[d].pc = "mkdir"
    /\ dl' = [dl EXCEPT ![d].pc = "thrown"]
    /\ UNCHANGED <<diskVars, dzVars, anVars, pureVars>>

DlFetchAbortsOnStatus(d, resp) ==
    /\ dl[d].pc = "fetch"
    /\ IF resp.ok
       THEN dl' = [dl EXCEPT ![d].pc = "read",
                             ![d].total = ParseInt(resp.contentLength),
                             ![d].received = 0]
       ELSE dl' = [dl EXCEPT ![d] =
                      AfterFile([PushError(dl[d], "HTTP") EXCEPT !.i = TotalFiles])]
    /\ UNCHANGED <<diskVars, dzVars, anVars, pureVars>>

\* fetch(file.url) resolved with `resp`.
DlFetch(d, resp) ==
    /\ dl[d].pc = "fetch"
    /\ IF resp.ok
       THEN dl' = [dl EXCEPT ![d].pc = "read",
                             ![d].total = ParseInt(resp.contentLength),
                             ![d].received = 0]
       ELSE dl' = [dl EXCEPT ![d] = AfterFile(PushError(dl[d], "HTTP"))]
    /\ UNCHANGED <<diskVars, dzVars, anVars, pureVars>>

\* fetch(file.url) rejected (transport error).
DlFetchThrow(d) ==
    /\ dl[d].pc = "fetch"
    /\ dl' = [dl EXCEPT ![d] = AfterFile(PushError(dl[d], "transport"))]
    /\ UNCHANGED <<diskVars, dzVars, anVars, pureVars>>

DlReadReportsChunk(d, len, maxBytes) ==
    /\ dl[d].pc = "read"
    /\ dl[d].received + len <= maxBytes
    /\ LET r == dl[d]
           received == r.received + len
       IN  dl' = [dl EXCEPT ![d].received = received,
                            ![d].events =
                                IF Truthy(r.total)
                                THEN Append(@, ChunkEvent(r.i,
                                        RoundPercent(len, r.total), len, r.total))
                                ELSE @]
    /\ UNCHANGED <<diskVars, dzVars, anVars, pureVars>>

\* reader.read() gave a chunk of `len` bytes.
DlRead(d, len, maxBytes) ==
    /\ dl[d].pc = "read"
    /\ dl[d].received + len <= maxBytes
    /\ LET r == dl[d]
           received == r.received + len
       IN  dl' = [dl EXCEPT ![d] =
                    IF Truthy(r.total)
                    THEN Emit([r EXCEPT !.received = received],
                              ChunkEvent(r.i, RoundPercent(received, r.total),
                                         received, r.total))
                    ELSE [r EXCEPT !.received = received]]
    /\ UNCHANGED <<diskVars, dzVars, anVars, pureVars>>

\* reader.read() gave done: the buffer is built and fs.writeFile begins.
DlReadDone(d) ==
    /\ dl[d].pc = "read"
    /\ dl' = [dl EXCEPT ![d].pc = "wopen"]
    /\ UNCHANGED <<diskVars, dzVars, anVars, pureVars>>

\* reader.read() rejected (transport error in the body).
DlReadThrow(d) ==
    /\ dl[d].pc = "read"
    /\ dl' = [dl EXCEPT ![d] = AfterFile(PushError(dl[d], "transport"))]
    /\ UNCHANGED <<diskVars, dzVars, anVars, pureVars>>

\* fs.writeFile has opened the file: it exists, truncated.
DlWriteOpen(d) ==
    /\ dl[d].pc = "wopen"
    /\ disk' = [disk EXCEPT ![dl[d].id][FilesToDownload[dl[d].i]] = "partial"]
    /\ dl' = [dl EXCEPT ![d].pc = "writing"]
    /\ UNCHANGED <<dirs, dzVars, anVars, pureVars>>

\* fs.writeFile resolved; fileInfo is built, and a .gz file is decompressed
\* at once (lines 401-424).
DlWriteDone(d) ==
    /\ dl[d].pc = "writing"
    /\ LET r == dl[d]
           name == FilesToDownload[r.i]
           info == [NoInfo EXCEPT !.name = name, !.size = r.received]
       IN  /\ disk' = [disk EXCEPT ![r.id][name] = "full"]
           /\ IF EndsWith(name, ".gz")
              THEN /\ dl' = [dl EXCEPT ![d] =
                            Emit([r EXCEPT !.pc = "dec", !.info = info,
                                           !.outcomes = Append(@, "ok")],
                                 DecompressingEvent(r.i))]
                   /\ dz' = [dz EXCEPT ![d] = DzEnter(d, r.id, name)]
              ELSE /\ dl' = [dl EXCEPT ![d] = AfterFile(PushFile(
                                [r EXCEPT !.info = info, !.outcomes = Append(@, "ok")]))]
                   /\ dz' = dz
    /\ UNCHANGED <<dirs, zhist, anVars, pureVars>>

\* fs.writeFile rejected.
DlWriteFail(d) ==
    /\ dl[d].pc \in {"wopen", "writing"}
    /\ dl' = [dl EXCEPT ![d] = AfterFile(PushError(dl[d], "write"))]
    /\ UNCHANGED <<diskVars, dzVars, anVars, pureVars>>

\* decompressFile resolved: fs.stat(decompressedPath) is awaited.
DlDecReturned(d) ==
    /\ dl[d].pc = "dec" /\ dz[d].pc = "ret"
    /\ dl' = [dl EXCEPT ![d].pc = "stat", ![d].info.decompressed = dz[d].ret]
    /\ dz' = [dz EXCEPT ![d] = DzIdle]
    /\ UNCHANGED <<diskVars, zhist, anVars, pureVars>>

DlDecThrewFailsFile(d) ==
    /\ dl[d].pc = "dec" /\ dz[d].pc = "threw"
    /\ dl' = [dl EXCEPT ![d] = AfterFile(PushError(dl[d], "decompress"))]
    /\ dz' = [dz EXCEPT ![d] = DzIdle]
    /\ UNCHANGED <<diskVars, zhist, anVars, pureVars>>

\* decompressFile rejected: the warning goes on the file's own result.
DlDecThrew(d) ==
    /\ dl[d].pc = "dec" /\ dz[d].pc = "threw"
    /\ dl' = [dl EXCEPT ![d] =
                AfterFile(PushFile([dl[d] EXCEPT !.info.decompressError = TRUE]))]
    /\ dz' = [dz EXCEPT ![d] = DzIdle]
    /\ UNCHANGED <<diskVars, zhist, anVars, pureVars>>

\* fs.stat resolved; downloadedFiles.push(fileInfo).
DlStat(d) ==
    /\ dl[d].pc = "stat"
    /\ dl' = [dl EXCEPT ![d] = AfterFile(PushFile(dl[d]))]
    /\ UNCHANGED <<diskVars, dzVars, anVars, pureVars>>

(***************************************************************************)
(* AdvancedAnalyzer.getDataset(datasetId), advanced-analyzer.js lines      *)
(* 17-79, with DataDownloader.isDownloaded / getDatasetSummary and the     *)
(* DataParser calls it awaits.  A parse result is named after the content  *)
(* of the file it was read from: "null" (the parser caught an error),      *)
(* "partial" (a file still being written) or "full".                       *)
(***************************************************************************)
Callers == {"c1", "c2"}

NoResult == [kind |-> "none", error |-> None, id |-> None,
             matrix |-> "null", soft |-> "null"]

ErrorResult(msg) == [NoResult EXCEPT !.kind = "error", !.error = msg]

CallIdle == [pc |-> "idle", id |-> None, matrixFile |-> <<>>,
             softFile |-> <<>>, matrix |-> "null", soft |-> "null",
             hit |-> FALSE, ret |-> NoResult]

\* The pc values between the cache check and cache.set.
PipelinePcs == {"isDownloaded", "summary", "decM", "parseM", "decS", "parseS"}

\* summary.files.find(f => f.name.includes(part)): the first match in
\* readdir order, which the file system chooses.
FindChoices(files, part) ==
    LET hits == {n \in files : Includes(n, part)}
    IN  IF hits = {} THEN {<<>>} ELSE hits

\* What a parser returns for the file at `name`.
ParseOf(id, name) ==
    CASE disk[id][name] = "full" -> "full"
      [] disk[id][name] = "partial" -> "partial"
      [] OTHER -> "null"

\* Lines 64-75: the dataset object, cache.set, return.
SetAndReturn(c, r) ==
    LET dataset == [kind |-> "dataset", error |-> None, id |-> r.id,
                    matrix |-> r.matrix, soft |-> r.soft]
    IN  /\ cache' = [cache EXCEPT ![r.id] = dataset]
        /\ stored' = [stored EXCEPT ![r.id] =
                         IF @.kind = "none" THEN dataset ELSE @]
        /\ calls' = [calls EXCEPT ![c] = [r EXCEPT !.pc = "done", !.ret = dataset]]

\* Lines 52-62: the SOFT half starts, or there is none.
SoftPhase(c, r) ==
    IF r.softFile # <<>>
    THEN /\ calls' = [calls EXCEPT ![c] = [r EXCEPT !.pc = "decS"]]
         /\ dz' = [dz EXCEPT ![c] = DzEnter(c, r.id, r.softFile)]
         /\ UNCHANGED <<cache, stored>>
    ELSE /\ SetAndReturn(c, r)
         /\ dz' = [dz EXCEPT ![c] = DzIdle]

GdStartNoCacheCheck(c, id) ==
    /\ calls[c].pc = "idle"
    /\ calls' = [calls EXCEPT ![c] = [CallIdle EXCEPT !.pc = "isDownloaded", !.id = id]]
    /\ UNCHANGED <<diskVars, dzVars, dl, cache, stored, pureVars>>

\* Lines 19-25: the cache check, then await isDownloaded.
GdStart(c, id) ==
    /\ calls[c].pc = "idle"
    /\ IF cache[id].kind # "none"
       THEN calls' = [calls EXCEPT ![c] = [CallIdle EXCEPT !.pc = "done", !.id = id,
                                              !.hit = TRUE, !.ret = cache[id]]]
       ELSE calls' = [calls EXCEPT ![c] = [CallIdle EXCEPT !.pc = "isDownloaded",
                                              !.id = id]]
    /\ UNCHANGED <<diskVars, dzVars, dl, cache, stored, pureVars>>

GdIsDownloadedCachesError(c) ==
    /\ calls[c].pc = "isDownloaded"
    /\ IF calls[c].id \in dirs /\ FilesIn(calls[c].id) # {}
       THEN /\ calls' = [calls EXCEPT ![c].pc = "summary"]
            /\ cache' = cache
       ELSE /\ calls' = [calls EXCEPT ![c].pc = "done",
                                      ![c].ret = ErrorResult("Dataset not downloaded")]
            /\ cache' = [cache EXCEPT ![calls[c].id] = ErrorResult("Dataset not downloaded")]
    /\ UNCHANGED <<diskVars, dzVars, dl, stored, pureVars>>

\* isDownloaded (data-parser.js 598-607) answered; getDatasetSummary is awaited.
GdIsDownloaded(c) ==
    /\ calls[c].pc = "isDownloaded"
    /\ IF calls[c].id \in dirs /\ FilesIn(calls[c].id) # {}
       THEN calls' = [calls EXCEPT ![c].pc = "summary"]
       ELSE calls' = [calls EXCEPT ![c].pc = "done",
                                   ![c].ret = ErrorResult("Dataset not downloaded")]
    /\ UNCHANGED <<diskVars, dzVars, dl, cache, stored, pureVars>>

\* getDatasetSummary (data-parser.js 557-593) answered: the two files are
\* looked up and the matrix half starts (lines 30-45).
GdSummary(c) ==
    /\ calls[c].pc = "summary"
    /\ LET id == calls[c].id
           files == FilesIn(id)
       IN  IF id \notin dirs
           THEN \* summary.files is undefined: the TypeError reaches line 76
                /\ calls' = [calls EXCEPT ![c].pc = "done",
                                ![c].ret = ErrorResult("TypeError")]
                /\ UNCHANGED <<dz, cache, stored>>
           ELSE \E mf \in FindChoices(files, "series_matrix"),
                   sfl \in FindChoices(files, "soft") :
                   LET r == [calls[c] EXCEPT !.matrixFile = mf, !.softFile = sfl]
                   IN  IF mf # <<>>
                       THEN /\ calls' = [calls EXCEPT ![c] = [r EXCEPT !.pc = "decM"]]
                            /\ dz' = [dz EXCEPT ![c] = DzEnter(c, id, mf)]
                            /\ UNCHANGED <<cache, stored>>
                       ELSE SoftPhase(c, r)
    /\ UNCHANGED <<diskVars, zhist, dl, pureVars>>

\* decompressFile resolved: the parser is called on the path it returned.
GdDecReturned(c) ==
    /\ calls[c].pc \in {"decM", "decS"} /\ dz[c].pc = "ret"
    /\ calls' = [calls EXCEPT ![c].pc = IF calls[c].pc = "decM" THEN "parseM" ELSE "parseS"]
    /\ UNCHANGED <<diskVars, dzVars, dl, cache, stored, pureVars>>

\* decompressFile rejected: the inner catch leaves the parse result null.
GdDecThrew(c) ==
    /\ calls[c].pc \in {"decM", "decS"} /\ dz[c].pc = "threw"
    /\ IF calls[c].pc = "decM"
       THEN SoftPhase(c, calls[c])
       ELSE /\ SetAndReturn(c, calls[c])
            /\ dz' = [dz EXCEPT ![c] = DzIdle]
    /\ UNCHANGED <<diskVars, zhist, dl, pureVars>>

\* parseSeriesMatrix / parseSOFTFile resolved.
GdParsed(c) ==
    /\ calls[c].pc \in {"parseM", "parseS"}
    /\ LET parsed == ParseOf(calls[c].id, dz[c].ret)
       IN  IF calls[c].pc = "parseM"
           THEN SoftPhase(c, [calls[c] EXCEPT !.matrix = parsed])
           ELSE /\ SetAndReturn(c, [calls[c] EXCEPT !.soft = parsed])
                /\ dz' = [dz EXCEPT ![c] = DzIdle]
    /\ UNCHANGED <<diskVars, zhist, dl, pureVars>>

\* The caller has taken the result.
GdReturn(c) ==
    /\ calls[c].pc = "done"
    /\ calls' = [calls EXCEPT ![c] = CallIdle]
    /\ UNCHANGED <<diskVars, dzVars, dl, cache, stored, pureVars>>

ClearCacheDropsEvery(id) ==
    /\ cache' = [other \in Ids |-> NoResult]
    /\ stored' = [other \in Ids |-> NoResult]
    /\ UNCHANGED <<diskVars, dzVars, dl, calls, pureVars>>

\* clearCache(datasetId), lines 290-292.
ClearCache(id) ==
    /\ cache' = [cache EXCEPT ![id] = NoResult]
    /\ stored' = [stored EXCEPT ![id] = NoResult]
    /\ UNCHANGED <<diskVars, dzVars, dl, calls, pureVars>>

\* clearAllCache(), lines 297-299.
ClearAllCache ==
    /\ cache' = [id \in Ids |-> NoResult]
    /\ stored' = [id \in Ids |-> NoResult]
    /\ UNCHANGED <<diskVars, dzVars, dl, calls, pureVars>>

(***************************************************************************)
(* Text.  A string is the sequence of its parts; the characters the code   *)
(* looks for (tab, quote, '!', '_', '=', ':', blanks) are parts of their   *)
(* own, so that split, replace, trim and startsWith are computed.          *)
(***************************************************************************)
TAB == "\t"
QUOTE == "\""
Blanks == {" ", TAB, "\r"}

StartsWith(s, prefix) ==
    /\ Len(s) >= Len(prefix)
    /\ SubSeq(s, 1, Len(prefix)) = prefix

\* String.prototype.split(sep)
RECURSIVE Split(_, _)
Split(s, sep) ==
    LET k == FirstIndex(s, sep)
    IN  IF k = 0 THEN <<s>>
        ELSE <<SubSeq(s, 1, k - 1)>> \o Split(SubSeq(s, k + 1, Len(s)), sep)

\* s.replace(/"/g, '')
Unquote(s) == SelectSeq(s, LAMBDA part : part # QUOTE)

\* String.prototype.trim()
RECURSIVE Trim(_)
Trim(s) ==
    IF s = <<>> THEN s
    ELSE IF s[1] \in Blanks THEN Trim(Tail(s))
    ELSE IF s[Len(s)] \in Blanks THEN Trim(SubSeq(s, 1, Len(s) - 1))
    ELSE s

\* Array.prototype.slice(0, n)
Slice(seq, n) == SubSeq(seq, 1, IF Len(seq) < n THEN Len(seq) ELSE n)

(***************************************************************************)
(* DataParser.parseSeriesMatrix(filePath), data-parser.js lines 107-164.   *)
(* The file is read line by line; one action per iteration of the loop.    *)
(***************************************************************************)
RowCap == 1000          \* line 139: rows kept while reading
PreviewRows == 100      \* line 157: rows handed to the caller

\* The i-th part of the first tab that leaves a non-empty key before it and a
\* non-empty value after it; 0 if there is none.
KeyEnd(line, u) ==
    LET tabs == {t \in (u + 2)..(Len(line) - 1) : line[t] = TAB}
    IN  IF tabs = {} THEN 0
        ELSE CHOOSE t \in tabs : \A t2 \in tabs : t <= t2

\* line.match(/^!([^_]+)_(.+?)\t(.+)$/): <<category, key, value>> or <<>>.
MetadataMatch(line) ==
    LET u == FirstIndex(line, "_")
        t == KeyEnd(line, u)
    IN  IF u < 3 \/ t = 0 THEN <<>>
        ELSE <<SubSeq(line, 2, u - 1), SubSeq(line, u + 1, t - 1),
               SubSeq(line, t + 1, Len(line))>>

MxIdle == [pc |-> "idle", input |-> <<>>, pos |-> 0, metadata |-> <<>>,
           headerLine |-> <<>>, hasHeader |-> FALSE, inDataSection |-> FALSE,
           expressionData |-> <<>>]

MxLineAccumulates(m, line) ==
    IF StartsWith(line, <<"!">>)
    THEN LET match == MetadataMatch(line)
             entry == <<match[1], match[2]>>
         IN  IF match = <<>> THEN m
             ELSE [m EXCEPT !.metadata =
                      (entry :> (IF entry \in DOMAIN @ THEN @[entry] ELSE <<>>)
                                    \o Split(match[3], TAB)) @@ @]
    ELSE IF StartsWith(line, <<QUOTE, "ID_REF", QUOTE>>)
    THEN [m EXCEPT !.headerLine = [i \in 1..Len(Split(line, TAB)) |->
                                      Unquote(Split(line, TAB)[i])],
                   !.hasHeader = TRUE,
                   !.inDataSection = TRUE]
    ELSE IF m.inDataSection /\ Trim(line) # <<>>
    THEN LET values == [i \in 1..Len(Split(line, TAB)) |->
                           Unquote(Split(line, TAB)[i])]
         IN  IF Len(m.expressionData) < RowCap
             THEN [m EXCEPT !.expressionData = Append(@, values)]
             ELSE m
    ELSE m

\* One iteration of `for await (const line of rl)` on the line `line`.
MxLine(m, line) ==
    IF StartsWith(line, <<"!">>)
    THEN LET match == MetadataMatch(line)
         IN  IF match = <<>> THEN m
             ELSE [m EXCEPT !.metadata =
                      (<<match[1], match[2]>> :> Split(match[3], TAB)) @@ @]
    ELSE IF StartsWith(line, <<QUOTE, "ID_REF", QUOTE>>)
    THEN [m EXCEPT !.headerLine = [i \in 1..Len(Split(line, TAB)) |->
                                      Unquote(Split(line, TAB)[i])],
                   !.hasHeader = TRUE,
                   !.inDataSection = TRUE]
    ELSE IF m.inDataSection /\ Trim(line) # <<>>
    THEN LET values == [i \in 1..Len(Split(line, TAB)) |->
                           Unquote(Split(line, TAB)[i])]
         IN  IF Len(m.expressionData) < RowCap
             THEN [m EXCEPT !.expressionData = Append(@, values)]
             ELSE m
    ELSE m

\* Lines 145-159: the value parseSeriesMatrix returns.
MxResult(m) ==
    LET samples == IF m.hasHeader THEN Tail(m.headerLine) ELSE <<>>
    IN  [metadata |-> m.metadata,
         samples |-> samples,
         sampleCount |-> Len(samples),
         geneCount |-> Len(m.expressionData),
         expressionData |-> Slice(m.expressionData, PreviewRows),
         hasMoreData |-> Len(m.expressionData) = RowCap]

(***************************************************************************)
(* Series matrix files: a file is named by its number of data rows, and its*)
(* lines are computed from that number.                                    *)
(***************************************************************************)
MatrixPrologue ==
    << <<"!", "Series", "_", "title", TAB, QUOTE, "T1", QUOTE>>,
       <<"!", "Sample", "_", "characteristics", "_", "ch1", TAB,
         QUOTE, "drug: A", QUOTE, TAB, QUOTE, "drug: B", QUOTE>>,
       <<"!", "Sample", "_", "characteristics", "_", "ch1", TAB,
         QUOTE, "age: 1", QUOTE, TAB, QUOTE, "age: 2", QUOTE>>,
       <<"!", "series", "_", "matrix", "_", "table", "_", "begin">>,
       <<QUOTE, "ID_REF", QUOTE, TAB, QUOTE, "GSM1", QUOTE, TAB, QUOTE, "GSM2", QUOTE>> >>

MatrixEpilogue ==
    << <<"!", "series", "_", "matrix", "_", "table", "_", "end">>, <<>> >>

\* The decimal digits of k, one character each.
RECURSIVE Digits(_)
Digits(k) == IF k < 10 THEN <<ToString(k)>> ELSE Digits(k \div 10) \o <<ToString(k % 10)>>

\* The probe id of data row k, a string of characters: G1_at, G2_at, ...
GeneOfRow(k) == <<"G">> \o Digits(k) \o <<"_", "a", "t">>

DataRow(k) ==
    <<QUOTE>> \o GeneOfRow(k) \o <<QUOTE, TAB, ToString(k % 7), TAB, "2.5">>

MatrixLineCount(n) == Len(MatrixPrologue) + n + Len(MatrixEpilogue)

MatrixLine(n, pos) ==
    IF pos <= Len(MatrixPrologue) THEN MatrixPrologue[pos]
    ELSE IF pos <= Len(MatrixPrologue) + n THEN DataRow(pos - Len(MatrixPrologue))
    ELSE MatrixEpilogue[pos - Len(MatrixPrologue) - n]

MxStart(n) ==
    /\ mx.pc = "idle"
    /\ mx' = [MxIdle EXCEPT !.pc = "read", !.input = n, !.pos = 1]
    /\ UNCHANGED <<sysVars, sf, gq, st>>

MxRead ==
    /\ mx.pc = "read"
    /\ mx.pos <= MatrixLineCount(mx.input)
    /\ mx' = [MxLine(mx, MatrixLine(mx.input, mx.pos)) EXCEPT !.pos = mx.pos + 1]
    /\ UNCHANGED <<sysVars, sf, gq, st>>

MxReturn ==
    /\ mx.pc = "read"
    /\ mx.pos > MatrixLineCount(mx.input)
    /\ mx' = [mx EXCEPT !.pc = "done"]
    /\ UNCHANGED <<sysVars, sf, gq, st>>

(***************************************************************************)
(* DataParser.parseSOFTFile(filePath), data-parser.js lines 45-102.        *)
(* An object is a function from keys to values; undefined is a value of    *)
(* its own.  One action per iteration of `for (const line of lines)`.      *)
(***************************************************************************)
RawCap == 100           \* line 92: lines kept in data.raw

Undefined == <<"undefined">>

Put(obj, key, value) == (key :> value) @@ obj

\* Array.prototype.join(sep)
RECURSIVE Join(_, _)
Join(fields, sep) ==
    IF fields = <<>> THEN <<>>
    ELSE IF Len(fields) = 1 THEN fields[1]
    ELSE fields[1] \o <<sep>> \o Join(Tail(fields), sep)

\* line.split('=')[1]?.trim()
MarkerIdTaken(line) ==
    LET fields == Split(line, "=")
    IN  IF Len(fields) >= 2 THEN Trim(fields[2]) ELSE Undefined

CharColonLast(value) ==
    LET colons == {c \in 2..(Len(value) - 1) : value[c] = ":"}
    IN  IF colons = {} THEN 0
        ELSE CHOOSE c \in colons : \A c2 \in colons : c >= c2

\* The part index of the colon /(.+?):\s*(.+)/ matches at: the first colon
\* with something before it and something after it; 0 if there is none.
CharColon(value) ==
    LET colons == {c \in 2..(Len(value) - 1) : value[c] = ":"}
    IN  IF colons = {} THEN 0
        ELSE CHOOSE c \in colons : \A c2 \in colons : c <= c2

\* \s*(.+) on what follows the colon: the blanks go, but one part is left.
RECURSIVE AfterColon(_)
AfterColon(rest) ==
    IF Len(rest) > 1 /\ rest[1] \in Blanks THEN AfterColon(Tail(rest)) ELSE rest

SfIdle == [pc |-> "idle", lines |-> <<>>, pos |-> 0,
           platform |-> <<>>, series |-> <<>>, samples |-> <<>>, raw |-> <<>>,
           currentSection |-> "null"]

NewSample(id) == [id |-> id, characteristics |-> <<>>, fields |-> <<>>]

SfAttributeSecondField(f, line) ==
    LET fields == Split(Tail(line), "=")
        key == fields[1]
        value == IF Len(fields) >= 2 THEN Trim(fields[2]) ELSE <<>>
        n == Len(f.samples)
    IN  IF f.currentSection = "platform"
        THEN [f EXCEPT !.platform = Put(@, Trim(key), value)]
        ELSE IF f.currentSection = "sample" /\ n > 0
        THEN [f EXCEPT !.samples[n].fields = Put(@, Trim(key), value)]
        ELSE IF f.currentSection = "series"
        THEN [f EXCEPT !.series = Put(@, Trim(key), value)]
        ELSE f

\* Lines 71-88: an attribute line.
SfAttribute(f, line) ==
    LET fields == Split(Tail(line), "=")
        key == fields[1]
        value == Trim(Join(Tail(fields), "="))
        n == Len(f.samples)
    IN  IF f.currentSection = "platform"
        THEN [f EXCEPT !.platform = Put(@, Trim(key), value)]
        ELSE IF f.currentSection = "sample" /\ n > 0
        THEN IF Includes(key, "characteristics")
             THEN LET c == CharColon(value)
                  IN  IF c = 0 THEN f
                      ELSE [f EXCEPT !.samples[n].characteristics =
                               Put(@, SubSeq(value, 1, c - 1),
                                   AfterColon(SubSeq(value, c + 1, Len(value))))]
             ELSE IF Trim(key) = <<"id">>
                  THEN [f EXCEPT !.samples[n].id = value]
                  ELSE [f EXCEPT !.samples[n].fields = Put(@, Trim(key), value)]
        ELSE IF f.currentSection = "series"
        THEN [f EXCEPT !.series = Put(@, Trim(key), value)]
        ELSE f

SfSectionLineAppendsNamedOnly(f, line) ==
    IF StartsWith(line, <<"^PLATFORM">>)
    THEN [f EXCEPT !.currentSection = "platform",
                   !.platform = Put(@, <<"id">>, MarkerIdTaken(line))]
    ELSE IF StartsWith(line, <<"^SAMPLE">>)
    THEN IF MarkerIdTaken(line) = Undefined
         THEN [f EXCEPT !.currentSection = "sample"]
         ELSE [f EXCEPT !.currentSection = "sample",
                        !.samples = Append(@, NewSample(MarkerIdTaken(line)))]
    ELSE IF StartsWith(line, <<"^SERIES">>)
    THEN [f EXCEPT !.currentSection = "series",
                   !.series = Put(@, <<"id">>, MarkerIdTaken(line))]
    ELSE IF StartsWith(line, <<"!">>)
    THEN SfAttribute(f, line)
    ELSE f

\* Lines 61-89: the section state machine on one line.
SfSectionLine(f, line) ==
    IF StartsWith(line, <<"^PLATFORM">>)
    THEN [f EXCEPT !.currentSection = "platform",
                   !.platform = Put(@, <<"id">>, MarkerIdTaken(line))]
    ELSE IF StartsWith(line, <<"^SAMPLE">>)
    THEN [f EXCEPT !.currentSection = "sample",
                   !.samples = Append(@, NewSample(MarkerIdTaken(line)))]
    ELSE IF StartsWith(line, <<"^SERIES">>)
    THEN [f EXCEPT !.currentSection = "series",
                   !.series = Put(@, <<"id">>, MarkerIdTaken(line))]
    ELSE IF StartsWith(line, <<"!">>)
    THEN SfAttribute(f, line)
    ELSE f

\* One iteration of the loop: the section state machine, then data.raw.
SfLine(f, line) ==
    LET g == SfSectionLine(f, line)
    IN  IF Len(g.raw) < RawCap THEN [g EXCEPT !.raw = Append(@, line)] ELSE g

\* Lines 50-55 and 97: the value parseSOFTFile returns.
SfResult(f) ==
    [platform |-> f.platform, samples |-> f.samples, series |-> f.series,
     raw |-> f.raw]

(***************************************************************************)
(* SOFT files: every sequence of at most MaxSoftLines of these lines.      *)
(***************************************************************************)
SoftLines ==
    { <<"^SAMPLE", " ", "=", " ", "GSM1">>,
      <<"^SAMPLE", "=", "GSM2", "\r">>,
      <<"^SAMPLE">>,
      <<" ", "^SAMPLE", " ", "=", " ", "GSM3">>,
      <<"^PLATFORM", " ", "=", " ", "GPL1">>,
      <<"^SERIES", " ", "=", " ", "GSE1">>,
      <<"!", "Sample_", "title", " ", "=", " ", "a", "=", "b">>,
      <<"!", "Sample_", "characteristics", "_ch1", " ", "=", " ", "drug", ":", " ", "Metformin">>,
      <<"!", "Sample_", "characteristics", "_ch1", " ", "=", " ", "untreated">>,
      <<"!", "Sample_", "characteristics", "_ch1", "=", "cell type", ":", "T cell", ":",
        " ", "activated", " ">>,
      <<"!", "Sample_", "characteristics", "_ch1", " ", "=", " ", "tissue", " ", ":",
        " ", "liver">>,
      <<>> }

SfStart(doc) ==
    /\ sf.pc = "idle"
    /\ sf' = [SfIdle EXCEPT !.pc = "read", !.lines = doc, !.pos = 1]
    /\ UNCHANGED <<sysVars, mx, gq, st>>

SfRead ==
    /\ sf.pc = "read"
    /\ sf.pos <= Len(sf.lines)
    /\ sf' = [SfLine(sf, sf.lines[sf.pos]) EXCEPT !.pos = sf.pos + 1]
    /\ UNCHANGED <<sysVars, mx, gq, st>>

SfReturn ==
    /\ sf.pc = "read"
    /\ sf.pos > Len(sf.lines)
    /\ sf' = [sf EXCEPT !.pc = "done"]
    /\ UNCHANGED <<sysVars, mx, gq, st>>

(***************************************************************************)
(* Numbers.  A finite number is an integer count of hundredths; parseFloat *)
(* yields a finite number, NaN or Infinity; toFixed(2) writes a number     *)
(* out as sign, integer part, point and two digits.                        *)
(***************************************************************************)
NumberOf ==
    [t \in {"0", "1", "2", "3", "4", "5", "6", "2.5", "-1.5", "0.01"} |->
        CASE t = "0" -> 0 [] t = "5" -> 500 [] t = "6" -> 600
          [] t = "1" -> 100 [] t = "2" -> 200 [] t = "3" -> 300 [] t = "4" -> 400
          [] t = "2.5" -> 250 [] t = "-1.5" -> 0 - 150 [] t = "0.01" -> 1]

Finite(h) == [kind |-> "number", v |-> h]
NotANumber == [kind |-> "NaN", v |-> 0]
Infinite == [kind |-> "Infinity", v |-> 0]

RECURSIVE SkipBlanks(_)
SkipBlanks(s) == IF s # <<>> /\ s[1] \in Blanks THEN SkipBlanks(Tail(s)) ELSE s

\* parseFloat(cell): leading blanks are skipped, the longest numeric prefix
\* is read, anything after it is ignored; a missing cell is NaN.
ParseFloat(cell) ==
    LET t == SkipBlanks(cell)
    IN  IF t = <<>> THEN NotANumber
        ELSE IF t[1] \in DOMAIN NumberOf THEN Finite(NumberOf[t[1]])
        ELSE IF t[1] = "Infinity" THEN Infinite
        ELSE NotANumber

Abs(h) == IF h < 0 THEN 0 - h ELSE h

\* Number.prototype.toFixed(2) of a number with sign `neg` and magnitude a.
Fixed(neg, a) ==
    (IF neg THEN <<"-">> ELSE <<>>)
        \o <<ToString(a \div 100), ".", ToString((a % 100) \div 10), ToString(a % 10)>>

ToFixed2(h) == Fixed(h < 0, Abs(h))

\* (sum / n).toFixed(2): the nearest hundredth; where the quotient lies
\* half way between two hundredths its binary value decides, either way.
QuotientToFixed2(sum, n) ==
    LET q == sum \div n
        r == sum % n
        nearest == IF 2 * r < n THEN {q} ELSE IF 2 * r > n THEN {q + 1} ELSE {q, q + 1}
    IN  {Fixed(sum < 0, Abs(h)) : h \in nearest}

(***************************************************************************)
(* DataParser.getSampleStatistics(expressionData, samples), lines 169-207. *)
(* One action per iteration of the loop over the sample columns.           *)
(***************************************************************************)
\* row[i] of a JS array: undefined, which parseFloat reads as NaN, past the end
CellOf(row, i) == IF i + 1 <= Len(row) THEN row[i + 1] ELSE <<>>

\* lines 184-186: the column's values that are numbers and finite
ValidValues(rows, i) ==
    LET parsed == [k \in 1..Len(rows) |-> ParseFloat(CellOf(rows[k], i))]
        kept == SelectSeq(parsed, LAMBDA x : x.kind = "number")
    IN  [k \in 1..Len(kept) |-> kept[k].v]

\* Array.prototype.sort((a, b) => a - b): the sort is stable, so the place of
\* values[j] is the number of values that go before it
SortAscending(values) ==
    LET n == Len(values)
        place == [j \in 1..n |->
                    1 + Cardinality({k \in 1..n :
                            \/ values[k] < values[j]
                            \/ values[k] = values[j] /\ k < j})]
    IN  [r \in 1..n |-> values[CHOOSE j \in 1..n : place[j] = r]]

\* values.reduce((a, b) => a + b, 0); integer addition is associative, so the
\* sum is taken by halves
RECURSIVE Sum(_)
Sum(values) ==
    IF values = <<>> THEN 0
    ELSE IF Len(values) = 1 THEN values[1]
    ELSE LET half == Len(values) \div 2
         IN  Sum(SubSeq(values, 1, half)) + Sum(SubSeq(values, half + 1, Len(values)))

MedianInterpolated(sorted) ==
    IF Len(sorted) % 2 = 1 THEN sorted[(Len(sorted) \div 2) + 1]
    ELSE (sorted[Len(sorted) \div 2] + sorted[(Len(sorted) \div 2) + 1]) \div 2

\* line 192: sorted[Math.floor(sorted.length / 2)]
MedianOf(sorted) == sorted[(Len(sorted) \div 2) + 1]

StIdle == [pc |-> "idle", expressionData |-> <<>>, samples |-> <<>>, i |-> 0,
           out |-> <<>>, null |-> FALSE]

\* `i < samples.length + 1 && i < expressionData[0].length`
StLoopCondition(t) ==
    /\ t.i < Len(t.samples) + 1
    /\ t.i < Len(t.expressionData[1])

\* lines 195-203; `column` records which column the entry was computed from
SampleStats(t, values, mean) ==
    LET sorted == SortAscending(values)
    IN  [name |-> t.samples[t.i],
         valueCount |-> Len(values),
         mean |-> mean,
         median |-> ToFixed2(MedianOf(sorted)),
         min |-> ToFixed2(sorted[1]),
         max |-> ToFixed2(sorted[Len(sorted)]),
         range |-> ToFixed2(sorted[Len(sorted)] - sorted[1]),
         column |-> t.i]

StResult(t) ==
    IF t.null THEN [null |-> TRUE, sampleCount |-> 0, geneCount |-> 0, samples |-> <<>>]
    ELSE [null |-> FALSE, sampleCount |-> Len(t.samples),
          geneCount |-> Len(t.expressionData), samples |-> t.out]

\* lines 170-181: the early return, or the loop about to start
StEnter(rows, names) ==
    IF rows = <<>>
    THEN [StIdle EXCEPT !.pc = "done", !.samples = names, !.null = TRUE]
    ELSE [StIdle EXCEPT !.pc = "loop", !.expressionData = rows,
                        !.samples = names, !.i = 1]

StStart(rows, names) ==
    /\ st.pc = "idle"
    /\ st' = StEnter(rows, names)
    /\ UNCHANGED <<sysVars, mx, sf, gq>>

StColumn ==
    /\ st.pc = "loop"
    /\ StLoopCondition(st)
    /\ LET values == ValidValues(st.expressionData, st.i)
       IN  IF Len(values) > 0
           THEN \E mean \in QuotientToFixed2(Sum(values), Len(values)) :
                   st' = [st EXCEPT !.out = Append(@, SampleStats(st, values, mean)),
                                    !.i = @ + 1]
           ELSE st' = [st EXCEPT !.i = @ + 1]
    /\ UNCHANGED <<sysVars, mx, sf, gq>>

StReturn ==
    /\ st.pc = "loop"
    /\ ~StLoopCondition(st)
    /\ st' = [st EXCEPT !.pc = "done"]
    /\ UNCHANGED <<sysVars, mx, sf, gq>>

(***************************************************************************)
(* DataParser.queryGeneExpression(expressionData, geneName), lines 212-236.*)
(* Gene names are strings of characters.                                   *)
(***************************************************************************)
\* String.prototype.toUpperCase, on the characters the names are made of
UpperChar(ch) ==
    CASE ch = "a" -> "A" [] ch = "b" -> "B" [] ch = "c" -> "C" [] ch = "p" -> "P"
      [] ch = "g" -> "G"
      [] ch = "r" -> "R" [] ch = "t" -> "T" [] OTHER -> ch

ToUpperCase(str) == [k \in 1..Len(str) |-> UpperChar(str[k])]

\* String.prototype.includes(needle): scan for the first position it fits at
RECURSIVE IncludesFrom(_, _, _)
IncludesFrom(str, needle, from) ==
    IF from + Len(needle) - 1 > Len(str) THEN FALSE
    ELSE IF SubSeq(str, from, from + Len(needle) - 1) = needle THEN TRUE
    ELSE IncludesFrom(str, needle, from + 1)

IncludesString(str, needle) == IncludesFrom(str, needle, 1)

GqIdle == [pc |-> "idle", expressionData |-> <<>>, geneName |-> <<>>,
           ret |-> [null |-> TRUE, found |-> FALSE, geneId |-> <<>>, values |-> <<>>,
                    rawData |-> <<>>, searched |-> <<>>]]

GeneFound(row) ==
    [null |-> FALSE, found |-> TRUE, geneId |-> row[1],
     values |-> [k \in 1..(Len(row) - 1) |-> ParseFloat(row[k + 1])],
     rawData |-> row, searched |-> <<>>]

GeneNotFound(geneName) ==
    [null |-> FALSE, found |-> FALSE, geneId |-> <<>>, values |-> <<>>,
     rawData |-> <<>>, searched |-> geneName]

RowMatchesContainingOnly(row, geneNameUpper) ==
    IncludesString(ToUpperCase(row[1]), geneNameUpper)

\* line 222: geneId.includes(geneNameUpper) || geneNameUpper.includes(geneId)
RowMatches(row, geneNameUpper) ==
    LET geneId == ToUpperCase(row[1])
    IN  IncludesString(geneId, geneNameUpper) \/ IncludesString(geneNameUpper, geneId)

\* lines 220-230: the loop returns at the first row that matches
\* (a hit in the first half of the rows hides every hit in the second half)
RECURSIVE FirstMatch(_, _)
FirstMatch(rows, geneNameUpper) ==
    IF rows = <<>> THEN <<>>
    ELSE IF Len(rows) = 1
         THEN IF RowMatches(rows[1], geneNameUpper) THEN <<rows[1]>> ELSE <<>>
    ELSE LET half == Len(rows) \div 2
             first == FirstMatch(SubSeq(rows, 1, half), geneNameUpper)
         IN  IF first # <<>> THEN first
             ELSE FirstMatch(SubSeq(rows, half + 1, Len(rows)), geneNameUpper)

QueryGeneExpression(rows, geneName) ==
    IF rows = <<>> THEN GqIdle.ret
    ELSE LET hit == FirstMatch(rows, ToUpperCase(geneName))
         IN  IF hit # <<>> THEN GeneFound(hit[1]) ELSE GeneNotFound(geneName)

GqQuery(rows, geneName) ==
    /\ gq.pc = "idle"
    /\ gq' = [pc |-> "done", expressionData |-> rows, geneName |-> geneName,
              ret |-> QueryGeneExpression(rows, geneName)]
    /\ UNCHANGED <<sysVars, mx, sf, st>>

(***************************************************************************)
(* AdvancedAnalyzer.getStatistics(datasetId) and queryGene(datasetId,      *)
(* geneName), advanced-analyzer.js lines 84-137.  Both await getDataset,   *)
(* which hands back an error object, a dataset whose matrix is null, or a  *)
(* dataset whose matrix is what parseSeriesMatrix returned.                *)
(***************************************************************************)
QaOps == {"getStatistics", "queryGene"}

DatasetKinds == {"not downloaded", "failed", "no matrix", "parsed"}

QaNoRet == [kind |-> "none", error |-> None, found |-> FALSE, geneId |-> <<>>,
            values |-> <<>>, samples |-> <<>>, searched |-> <<>>,
            datasetId |-> None, stats |-> StResult(StIdle), metadata |-> <<>>]

QaIdle == [pc |-> "idle", op |-> None, id |-> None, geneName |-> <<>>,
           kind |-> None, matrix |-> MxResult(MxIdle), ret |-> QaNoRet,
           threw |-> FALSE]

QaError(msg) == [QaNoRet EXCEPT !.kind = "error", !.error = msg]

\* getDataset lines 27 and 77: the error the dataset object carries
DatasetError(kind) ==
    IF kind = "not downloaded" THEN "Dataset not downloaded" ELSE "error.message"

\* queryGene lines 121-136.  `result.found` on the null queryGeneExpression
\* returns for an empty table is a TypeError; so is the assignment to
\* result.expressionBySample[sample], a property that was never created
\* (line 128 creates expressionByDSample), for the first sample.
QaGene(q, matrix) ==
    LET result == QueryGeneExpression(matrix.expressionData, q.geneName)
    IN  IF result.null
        THEN [q EXCEPT !.pc = "done", !.threw = TRUE]
        ELSE IF result.found
        THEN IF Len(matrix.samples) > 0
             THEN [q EXCEPT !.pc = "done", !.threw = TRUE]
             ELSE [q EXCEPT !.pc = "done",
                            !.ret = [QaNoRet EXCEPT !.kind = "gene", !.found = TRUE,
                                                    !.geneId = result.geneId,
                                                    !.values = result.values,
                                                    !.samples = matrix.samples]]
        ELSE [q EXCEPT !.pc = "done",
                       !.ret = [QaNoRet EXCEPT !.kind = "gene",
                                               !.searched = result.searched]]

\* lines 84 and 111: the call, up to `await this.getDataset(datasetId)`
QaCall(op, id, geneName) ==
    /\ qa.pc = "idle"
    /\ qa' = [QaIdle EXCEPT !.pc = "getDataset", !.op = op, !.id = id,
                            !.geneName = geneName]
    /\ UNCHANGED <<diskVars, dzVars, dl, anVars, mx, sf, gq, st, th>>

\* lines 85-97 and 112-123: getDataset has returned a dataset of this kind;
\* a parsed matrix is the one parseSeriesMatrix returned.
QaDataset(kind) ==
    /\ qa.pc = "getDataset"
    /\ kind = "parsed" => mx.pc = "done"
    /\ kind = "not downloaded" => mx.pc = "idle"
    /\ LET matrix == IF kind = "parsed" THEN MxResult(mx) ELSE QaIdle.matrix
           q == [qa EXCEPT !.kind = kind, !.matrix = matrix]
       IN  IF kind \in {"not downloaded", "failed"}
           THEN /\ qa' = [q EXCEPT !.pc = "done", !.ret = QaError(DatasetError(kind))]
                /\ st' = st
           ELSE IF kind = "no matrix"
           THEN /\ qa' = [q EXCEPT !.pc = "done",
                                   !.ret = QaError(IF qa.op = "getStatistics"
                                                   THEN "No expression matrix available"
                                                   ELSE "No expression data available")]
                /\ st' = st
           ELSE IF qa.op = "getStatistics"
           THEN /\ qa' = [q EXCEPT !.pc = "stats"]
                /\ st' = StEnter(matrix.expressionData, matrix.samples)
           ELSE /\ qa' = QaGene(q, matrix)
                /\ st' = st
    /\ UNCHANGED <<diskVars, dzVars, dl, anVars, mx, sf, gq, th>>

\* lines 99-103: getSampleStatistics has returned; null spreads to nothing
QaStatsReturn ==
    /\ qa.pc = "stats"
    /\ st.pc = "done"
    /\ qa' = [qa EXCEPT !.pc = "done",
                        !.ret = [QaNoRet EXCEPT !.kind = "stats",
                                                !.datasetId = qa.id,
                                                !.stats = StResult(st),
                                                !.metadata = qa.matrix.metadata]]
    /\ UNCHANGED <<diskVars, dzVars, dl, anVars, mx, sf, gq, st, th>>

(***************************************************************************)
(* app.post('/api/threads'), data-parser.js lines 764-819, with            *)
(* ThreadManager.createThread / updateThreadDownloadStatus (part_001 lines *)
(* 25-113) and DataDownloader.onProgress / removeProgressCallback (lines   *)
(* 284-293).  Request r runs its background download as run RunOf(r).      *)
(*   idle -> details (await getDatasetDetails) -> download -> done         *)
(***************************************************************************)
Reqs == {"r1", "r2"}

RunOf(r) == IF r = "r1" THEN "d1" ELSE "d2"

NoStatus == [kind |-> "null", success |-> FALSE, files |-> 0,
             errorsNull |-> TRUE, error |-> FALSE]

NoThread == [exists |-> FALSE, downloadStatus |-> NoStatus, messages |-> <<>>]

ReqIdle == [pc |-> "idle", id |-> None, status |-> 0]

\* The thread ids: 'general' and `dataset-${datasetId}`, named by datasetId.
ThreadKeys == Ids \cup {"general"}

\* createDefaultThread(), part_001 12-23
GeneralThread == [exists |-> TRUE, downloadStatus |-> NoStatus, messages |-> <<>>]

\* deleteStatus is the status of the last answer of DELETE /api/threads/:id
ThIdle == [reqs |-> [r \in Reqs |-> ReqIdle],
           threads |-> [k \in ThreadKeys |->
                          IF k = "general" THEN GeneralThread ELSE NoThread],
           callbacks |-> {},
           deleteStatus |-> 0]

\* createThread(datasetId, details, {downloading: true}), part_001 25-87
CreateThread(threads, id) ==
    IF threads[id].exists THEN threads
    ELSE [threads EXCEPT ![id] =
            [exists |-> TRUE,
             downloadStatus |-> [NoStatus EXCEPT !.kind = "downloading"],
             messages |-> <<"created">>]]

\* the downloadStatus objects handed to updateThreadDownloadStatus
ResultStatus(res) ==
    [kind |-> "result", success |-> res.success, files |-> Len(res.files),
     errorsNull |-> res.errors.null, error |-> FALSE]

ThrownStatus == [NoStatus EXCEPT !.kind = "thrown", !.error = TRUE]

\* updateThreadDownloadStatus(threadId, downloadStatus), part_001 89-113
UpdateThreadDownloadStatus(threads, id, status) ==
    IF ~threads[id].exists THEN threads
    ELSE [threads EXCEPT
            ![id].downloadStatus = status,
            ![id].messages = IF status.success THEN Append(@, "complete")
                             ELSE IF status.error THEN Append(@, "issues")
                             ELSE @]

DeleteThreadUnguarded(threads, key) == [threads EXCEPT ![key] = NoThread]

\* deleteThread(threadId), part_001 141-146: the map after the call, which
\* throws for 'general'
DeleteThread(threads, key) ==
    IF key = "general" THEN threads ELSE [threads EXCEPT ![key] = NoThread]

\* addMessage(threadId, message), part_001 125-139: the map after the call,
\* which throws for a thread that does not exist
AddMessage(threads, key) ==
    IF ~threads[key].exists THEN threads
    ELSE [threads EXCEPT ![key].messages = Append(@, "chat")]

\* clearThread(threadId), part_001 148-163: the map after the call, which
\* throws for a thread that does not exist
ClearThread(threads, key) ==
    IF ~threads[key].exists THEN threads
    ELSE [threads EXCEPT ![key].messages =
            IF key = "general" THEN <<>> ELSE Slice(@, 1)]

\* onProgress(datasetId, callback), lines 284-286; the callbacks map is
\* kept as the set of its keys, each callback being the one of lines 784-786
OnProgress(callbacks, datasetId) == callbacks \cup {datasetId}

\* removeProgressCallback(datasetId), lines 291-293
RemoveProgressCallback(callbacks, datasetId) == callbacks \ {datasetId}

\* lines 764-773: the request arrives; without datasetId it is answered 400
ThPost(r, id) ==
    /\ th.reqs[r].pc = "idle"
    /\ th' = [th EXCEPT !.reqs[r] =
                IF id = None THEN [pc |-> "done", id |-> id, status |-> 400]
                ELSE [pc |-> "details", id |-> id, status |-> 0]]
    /\ UNCHANGED <<diskVars, dzVars, dl, anVars, mx, sf, gq, st, qa>>

\* lines 773 and 811-817: getDatasetDetails rejected
ThDetailsFail(r) ==
    /\ th.reqs[r].pc = "details"
    /\ th' = [th EXCEPT !.reqs[r].pc = "done", !.reqs[r].status = 500]
    /\ UNCHANGED <<diskVars, dzVars, dl, anVars, mx, sf, gq, st, qa>>

\* lines 773-792: the details arrived; the thread is created, the response
\* sent, the callback registered and downloadDataset called, which runs up
\* to its first await.
ThDetails(r) ==
    /\ th.reqs[r].pc = "details"
    /\ dl[RunOf(r)].pc = "idle"
    /\ th' = [th EXCEPT !.reqs[r].pc = "download", !.reqs[r].status = 200,
                        !.threads = CreateThread(@, th.reqs[r].id),
                        !.callbacks = OnProgress(@, th.reqs[r].id)]
    /\ dl' = [dl EXCEPT ![RunOf(r)] = DlEnter(th.reqs[r].id)]
    /\ UNCHANGED <<diskVars, dzVars, anVars, mx, sf, gq, st, qa>>

\* lines 792-801: downloadDataset returned
ThDownloaded(r) ==
    /\ th.reqs[r].pc = "download"
    /\ dl[RunOf(r)].pc = "done"
    /\ th' = [th EXCEPT !.reqs[r].pc = "done",
                        !.threads = UpdateThreadDownloadStatus(@, th.reqs[r].id,
                                        ResultStatus(DlResult(dl[RunOf(r)]))),
                        !.callbacks = RemoveProgressCallback(@, th.reqs[r].id)]
    /\ UNCHANGED <<diskVars, dzVars, dl, anVars, mx, sf, gq, st, qa>>

\* lines 802-809: downloadDataset threw
ThDownloadThrew(r) ==
    /\ th.reqs[r].pc = "download"
    /\ dl[RunOf(r)].pc = "thrown"
    /\ th' = [th EXCEPT !.reqs[r].pc = "done",
                        !.threads = UpdateThreadDownloadStatus(@, th.reqs[r].id,
                                        ThrownStatus),
                        !.callbacks = RemoveProgressCallback(@, th.reqs[r].id)]
    /\ UNCHANGED <<diskVars, dzVars, dl, anVars, mx, sf, gq, st, qa>>

\* app.delete('/api/threads/:id'), lines 822-838: 500 when deleteThread
\* throws, 404 when Map.delete returns false
ThDelete(key) ==
    /\ th' = [th EXCEPT !.threads = DeleteThread(@, key),
                        !.deleteStatus = IF key = "general" THEN 500
                                         ELSE IF th.threads[key].exists THEN 200
                                         ELSE 404]
    /\ UNCHANGED <<diskVars, dzVars, dl, anVars, mx, sf, gq, st, qa>>

\* Calls of the ThreadManager methods by the routes of the server: the
\* thread map after each call.
TmCreateThread(id) ==
    /\ th' = [th EXCEPT !.threads = CreateThread(@, id)]
    /\ UNCHANGED <<diskVars, dzVars, dl, anVars, mx, sf, gq, st, qa>>

TmUpdate(id, status, maxMessages) ==
    /\ Len(th.threads[id].messages) < maxMessages
    /\ th' = [th EXCEPT !.threads = UpdateThreadDownloadStatus(@, id, status)]
    /\ UNCHANGED <<diskVars, dzVars, dl, anVars, mx, sf, gq, st, qa>>

TmAddMessage(key, maxMessages) ==
    /\ Len(th.threads[key].messages) < maxMessages
    /\ th' = [th EXCEPT !.threads = AddMessage(@, key)]
    /\ UNCHANGED <<diskVars, dzVars, dl, anVars, mx, sf, gq, st, qa>>

TmClearThread(key) ==
    /\ th' = [th EXCEPT !.threads = ClearThread(@, key)]
    /\ UNCHANGED <<diskVars, dzVars, dl, anVars, mx, sf, gq, st, qa>>

(***************************************************************************)
(* Specifications.  Each one starts the parts it does not exercise in their*)
(* idle state and never moves them.                                        *)
(***************************************************************************)
DzInitial ==
    /\ dz = [p \in DzProcs |-> DzIdle]
    /\ zhist = [p \in DzProcs |-> <<>>]

DlInitial == dl = [d \in Runs |-> DlIdle]

AnInitial ==
    /\ calls = [c \in Callers |-> CallIdle]
    /\ cache = [id \in Ids |-> NoResult]
    /\ stored = [id \in Ids |-> NoResult]

MxInitial == mx = MxIdle

SfInitial == sf = SfIdle

PureInitial ==
    /\ MxInitial
    /\ SfInitial
    /\ gq = GqIdle
    /\ st = StIdle
    /\ qa = QaIdle
    /\ th = ThIdle

\* Both compressed files of every dataset are on disk, nothing is decompressed.
DiskCompressed ==
    /\ dirs = Ids
    /\ disk = [id \in Ids |-> [n \in FileNames |->
                  IF n \in {MatrixGz, SoftGz} THEN "full" ELSE "absent"]]

\* GSE2 was downloaded and decompressed earlier; GSE1 has no directory yet.
DiskOneDownloaded ==
    /\ dirs = {"GSE2"}
    /\ disk = [id \in Ids |-> [n \in FileNames |->
                  IF id = "GSE2" THEN "full" ELSE "absent"]]

DecompressInit == DiskCompressed /\ DzInitial /\ DlInitial /\ AnInitial /\ PureInitial

DecompressNext ==
    \E p \in Direct :
        \/ \E gzName \in {MatrixGz, SoftGz} : ZCall(p, "GSE1", gzName)
        \/ DzCheck(p)
        \/ DzOpen(p)
        \/ DzFinish(p)
        \/ DzFail(p)
        \/ ZReturn(p)

SpecDecompress == DecompressInit /\ [][DecompressNext]_vars

(***************************************************************************)
(* One downloadDataset run against every answer of the network and disk.   *)
(***************************************************************************)
MaxBytes == 3           \* bytes one response body delivers at most
MaxChunk == 2           \* bytes one reader.read() delivers at most

DownloadInit ==
    /\ dirs = {} /\ disk = [id \in Ids |-> EmptyDir]
    /\ DzInitial /\ DlInitial /\ AnInitial /\ PureInitial

DownloadNext ==
    \/ DlStart("d1", "GSE1")
    \/ DlMkdir("d1")
    \/ DlMkdirFail("d1")
    \/ \E resp \in Responses : DlFetch("d1", resp)
    \/ DlFetchThrow("d1")
    \/ \E len \in 1..MaxChunk : DlRead("d1", len, MaxBytes)
    \/ DlReadDone("d1")
    \/ DlReadThrow("d1")
    \/ DlWriteOpen("d1")
    \/ DlWriteDone("d1")
    \/ DlWriteFail("d1")
    \/ DzCheck("d1")
    \/ DzOpen("d1")
    \/ DzFinish("d1")
    \/ DzFail("d1")
    \/ DlDecReturned("d1")
    \/ DlDecThrew("d1")
    \/ DlStat("d1")

SpecDownload == DownloadInit /\ [][DownloadNext]_vars

(***************************************************************************)
(* Two getDataset callers and cache clearing, over two datasets whose      *)
(* compressed files are on disk.                                           *)
(***************************************************************************)
CacheIds == {"GSE1"}

CacheInit ==
    /\ DiskCompressed
    /\ DzInitial /\ DlInitial /\ AnInitial /\ PureInitial

CacheNext ==
    \/ \E c \in Callers :
          \/ \E id \in CacheIds : GdStart(c, id)
          \/ GdIsDownloaded(c)
          \/ GdSummary(c)
          \/ DzCheck(c)
          \/ DzOpen(c)
          \/ DzFinish(c)
          \/ DzFail(c)
          \/ GdDecReturned(c)
          \/ GdDecThrew(c)
          \/ GdParsed(c)
          \/ GdReturn(c)
    \/ \E id \in CacheIds : ClearCache(id)
    \/ ClearAllCache

SpecCache == CacheInit /\ [][CacheNext]_vars

(***************************************************************************)
(* parseSeriesMatrix on files of few rows, of about PreviewRows rows and   *)
(* of about RowCap rows.                                                   *)
(***************************************************************************)
MaxFewRows == 2         \* the small files have 0..MaxFewRows data rows
MaxExtraRows == 2       \* the large files have up to RowCap + MaxExtraRows

MatrixRowCounts ==
    (0..MaxFewRows)
    \cup ((PreviewRows - 1)..(PreviewRows + 1))
    \cup ((RowCap - 1)..(RowCap + MaxExtraRows))

MatrixInit ==
    /\ DiskCompressed /\ DzInitial /\ DlInitial /\ AnInitial
    /\ PureInitial

MatrixNext ==
    \/ \E n \in MatrixRowCounts : MxStart(n)
    \/ MxRead
    \/ MxReturn

SpecMatrix == MatrixInit /\ [][MatrixNext]_vars

(***************************************************************************)
(* parseSOFTFile on every short SOFT file.                                 *)
(***************************************************************************)
MaxSoftLines == 3       \* lines of a SOFT file

SoftDocs == UNION {[1..n -> SoftLines] : n \in 0..MaxSoftLines}

SoftInit ==
    /\ DiskCompressed /\ DzInitial /\ DlInitial /\ AnInitial
    /\ PureInitial

SoftNext ==
    \/ sf.pc = "idle" /\ \E doc \in SoftDocs : SfStart(doc)
    \/ SfRead
    \/ SfReturn

SpecSoft == SoftInit /\ [][SoftNext]_vars

(***************************************************************************)
(* getSampleStatistics on every short table of expression rows.           *)
(***************************************************************************)
MaxStatRows == 4        \* rows of expressionData

StatRows ==
    { <<<<"G">>, <<"1">>>>, <<<<"G">>, <<"2">>>>, <<<<"G">>, <<"3">>>>,
      <<<<"G">>, <<"4">>>>, <<<<"G">>, <<"null">>>>, <<<<"G">>>>,
      <<<<"G">>, <<"Infinity">>, <<"0.01">>>>,
      <<<<"G">>, <<" ", "2.5">>, <<"-1.5">>>>,
      <<<<"G">>, <<"3", "abc">>, <<>>>> }

StatTables == UNION {[1..n -> StatRows] : n \in 0..MaxStatRows}

StatSamples == {<<"GSM1">>, <<"GSM1", "GSM2">>}

StatsInit ==
    /\ DiskCompressed /\ DzInitial /\ DlInitial /\ AnInitial
    /\ PureInitial

StatsNext ==
    \/ st.pc = "idle" /\ \E rows \in StatTables, names \in StatSamples : StStart(rows, names)
    \/ StColumn
    \/ StReturn

SpecStats == StatsInit /\ [][StatsNext]_vars

(***************************************************************************)
(* queryGeneExpression on every short table of genes and a few queries.   *)
(***************************************************************************)
MaxGeneRows == 3        \* rows of expressionData

GeneRows ==
    { <<<<"B", "R", "C", "A", "1">>, <<"1">>>>,
      <<<<"B", "R", "C", "A", "1", "-", "0", "0", "1">>, <<"2.5">>>>,
      <<<<"b", "r", "c", "a", "2">>, <<"null">>>>,
      <<<<"T", "P", "5", "3">>, <<"4">>, <<"3", "abc">>>>,
      <<<<"A">>, <<"3">>>>,
      <<<<>>, <<"2">>>> }

GeneTables == UNION {[1..n -> GeneRows] : n \in 0..MaxGeneRows}

GeneQueries ==
    { <<"b", "r", "c", "a", "1">>, <<"B", "R", "C", "A", "1", "-", "0", "0", "1", "2">>, <<"t", "p", "5", "3">>, <<"r", "c">>, <<"T", "P", "5">>, <<>> }

GeneInit ==
    /\ DiskCompressed /\ DzInitial /\ DlInitial /\ AnInitial
    /\ PureInitial

GeneNext == \E rows \in GeneTables, geneName \in GeneQueries : GqQuery(rows, geneName)

SpecGene == GeneInit /\ [][GeneNext]_vars

(***************************************************************************)
(* getStatistics and queryGene on a dataset whose matrix is parsed from a  *)
(* file of any of the sizes of MatrixRowCounts.                            *)
(***************************************************************************)
RowBeyondPreview == 150     \* a data row after the 100 rows of the preview

AnalysisQueries ==
    { GeneOfRow(1), <<"g", "2", "_", "a", "t">>, GeneOfRow(RowBeyondPreview),
      GeneOfRow(RowCap + 1), <<"x", "y", "z">> }

AnalysisInit ==
    /\ DiskCompressed /\ DzInitial /\ DlInitial /\ AnInitial
    /\ PureInitial

AnalysisNext ==
    \/ QaCall("getStatistics", "GSE1", <<>>)
    \/ \E geneName \in AnalysisQueries : QaCall("queryGene", "GSE1", geneName)
    \/ qa.pc = "getDataset" /\ \E n \in MatrixRowCounts : MxStart(n)
    \/ MxRead
    \/ MxReturn
    \/ \E kind \in DatasetKinds : QaDataset(kind)
    \/ StColumn
    \/ StReturn
    \/ QaStatsReturn

SpecAnalysis == AnalysisInit /\ [][AnalysisNext]_vars

(***************************************************************************)
(* Two thread-creation requests and the background downloads they start.   *)
(***************************************************************************)
ThreadIds == {"GSE1", None}

\* The server answers without a content-length header, or with 404, and a
\* body arrives in one chunk; fetch, read and write do not fail.
ThreadResponses == {resp \in Responses : resp.contentLength = None}

ThreadsInit ==
    /\ dirs = {} /\ disk = [id \in Ids |-> EmptyDir]
    /\ DzInitial /\ DlInitial /\ AnInitial /\ PureInitial

ThreadsNext ==
    \E r \in Reqs :
        \/ \E id \in ThreadIds : ThPost(r, id)
        \/ ThDetailsFail(r)
        \/ ThDetails(r)
        \/ ThDownloaded(r)
        \/ ThDownloadThrew(r)
        \/ DlMkdir(RunOf(r))
        \/ DlMkdirFail(RunOf(r))
        \/ \E resp \in ThreadResponses : DlFetch(RunOf(r), resp)
        \/ DlRead(RunOf(r), 1, 1)
        \/ DlReadDone(RunOf(r))
        \/ DlWriteOpen(RunOf(r))
        \/ DlWriteDone(RunOf(r))
        \/ DzCheck(RunOf(r))
        \/ DzOpen(RunOf(r))
        \/ DzFinish(RunOf(r))
        \/ DzFail(RunOf(r))
        \/ DlDecReturned(RunOf(r))
        \/ DlDecThrew(RunOf(r))
        \/ DlStat(RunOf(r))

SpecThreads == ThreadsInit /\ [][ThreadsNext]_vars

(***************************************************************************)
(* Two thread-creation requests for different datasets, whose background   *)
(* downloads run at the same time.                                         *)
(***************************************************************************)
ReqId(r) == IF r = "r1" THEN "GSE1" ELSE "GSE2"

ConcurrentNext ==
    \E r \in Reqs :
        \/ ThPost(r, ReqId(r))
        \/ ThDetailsFail(r)
        \/ ThDetails(r)
        \/ ThDownloaded(r)
        \/ ThDownloadThrew(r)
        \/ DlMkdir(RunOf(r))
        \/ DlMkdirFail(RunOf(r))
        \/ \E resp \in ThreadResponses : DlFetch(RunOf(r), resp)
        \/ DlRead(RunOf(r), 1, 1)
        \/ DlReadDone(RunOf(r))
        \/ DlWriteOpen(RunOf(r))
        \/ DlWriteDone(RunOf(r))
        \/ DzCheck(RunOf(r))
        \/ DzOpen(RunOf(r))
        \/ DzFinish(RunOf(r))
        \/ DzFail(RunOf(r))
        \/ DlDecReturned(RunOf(r))
        \/ DlDecThrew(RunOf(r))
        \/ DlStat(RunOf(r))

SpecConcurrent == ThreadsInit /\ [][ConcurrentNext]_vars

(***************************************************************************)
(* One thread-creation request and its background download, while threads  *)
(* are deleted at any moment.                                              *)
(***************************************************************************)
ThreadLifeNext ==
    \/ ThPost("r1", "GSE1")
    \/ ThDetailsFail("r1")
    \/ ThDetails("r1")
    \/ ThDownloaded("r1")
    \/ ThDownloadThrew("r1")
    \/ DlMkdir("d1")
    \/ DlMkdirFail("d1")
    \/ \E resp \in ThreadResponses : DlFetch("d1", resp)
    \/ DlRead("d1", 1, 1)
    \/ DlReadDone("d1")
    \/ DlWriteOpen("d1")
    \/ DlWriteDone("d1")
    \/ DzCheck("d1")
    \/ DzOpen("d1")
    \/ DzFinish("d1")
    \/ DzFail("d1")
    \/ DlDecReturned("d1")
    \/ DlDecThrew("d1")
    \/ DlStat("d1")
    \/ \E key \in {"GSE1", "general"} : ThDelete(key)

SpecThreadLife == ThreadsInit /\ [][ThreadLifeNext]_vars

(***************************************************************************)
(* The ThreadManager under every sequence of calls of its methods.         *)
(***************************************************************************)
MaxMessages == 2        \* messages of a thread

ManagerStatuses ==
    {ThrownStatus} \cup
    {[kind |-> "result", success |-> n > 0, files |-> n, errorsNull |-> n = TotalFiles,
      error |-> FALSE] : n \in 0..TotalFiles}

ManagerNext ==
    \/ \E id \in Ids : TmCreateThread(id)
    \/ \E id \in Ids : \E status \in ManagerStatuses : TmUpdate(id, status, MaxMessages)
    \/ \E key \in ThreadKeys : ThDelete(key)
    \/ \E key \in ThreadKeys : TmAddMessage(key, MaxMessages)
    \/ \E key \in ThreadKeys : TmClearThread(key)

SpecManager == ThreadsInit /\ [][ManagerNext]_vars

(***************************************************************************)
(* One caller of getDataset over both dataset ids, with clearCache and     *)
(* clearAllCache at any moment.                                            *)
(***************************************************************************)
ClearInit ==
    /\ DiskCompressed
    /\ DzInitial /\ DlInitial /\ AnInitial /\ PureInitial

ClearNext ==
    \/ \E id \in Ids : GdStart("c1", id)
    \/ GdIsDownloaded("c1")
    \/ GdSummary("c1")
    \/ DzCheck("c1")
    \/ DzOpen("c1")
    \/ DzFinish("c1")
    \/ DzFail("c1")
    \/ GdDecReturned("c1")
    \/ GdDecThrew("c1")
    \/ GdParsed("c1")
    \/ GdReturn("c1")
    \/ \E id \in Ids : ClearCache(id)
    \/ ClearAllCache

SpecClear == ClearInit /\ [][ClearNext]_vars

(***************************************************************************)
(* getDataset("GSE1") called while GSE1 is not downloaded, being           *)
(* downloaded, and downloaded.                                             *)
(***************************************************************************)
FreshInit ==
    /\ DiskOneDownloaded
    /\ DzInitial /\ DlInitial /\ AnInitial /\ PureInitial

FreshNext ==
    \/ GdStart("c1", "GSE1")
    \/ GdIsDownloaded("c1")
    \/ GdSummary("c1")
    \/ DzCheck("c1")
    \/ DzOpen("c1")
    \/ DzFinish("c1")
    \/ DzFail("c1")
    \/ GdDecReturned("c1")
    \/ GdDecThrew("c1")
    \/ GdParsed("c1")
    \/ GdReturn("c1")
    \/ DlStart("d1", "GSE1")
    \/ DlMkdir("d1")
    \/ DlMkdirFail("d1")
    \/ \E resp \in ThreadResponses : DlFetch("d1", resp)
    \/ DlRead("d1", 1, 1)
    \/ DlReadDone("d1")
    \/ DlWriteOpen("d1")
    \/ DlWriteDone("d1")
    \/ DzCheck("d1")
    \/ DzOpen("d1")
    \/ DzFinish("d1")
    \/ DzFail("d1")
    \/ DlDecReturned("d1")
    \/ DlDecThrew("d1")
    \/ DlStat("d1")

SpecFresh == FreshInit /\ [][FreshNext]_vars

(***************************************************************************)
(* Properties.                                                             *)
(***************************************************************************)
DecompressParsePcs == {"decM", "parseM", "decS", "parseS"}

InFlight(id) == {c \in Callers : calls[c].pc \in DecompressParsePcs /\ calls[c].id = id}

\* C1: whatever the interleaving of concurrent getDataset(id) calls, at most
\* one decompress+parse pipeline for a given id is in flight at any time.
C1_SingleFlight == \A id \in Ids : Cardinality(InFlight(id)) <= 1

\* C2: once getDataset(id) has stored a result for id, every getDataset(id)
\* called later, with no clearCache(id)/clearAllCache in between, returns that
\* same stored result at once, without running decompression or parsing.
C2_LaterCallsReturnStored ==
    [][\A c \in Callers :
          (calls[c].pc = "idle" /\ calls'[c].pc # "idle"
              /\ stored[calls'[c].id].kind # "none")
          => (calls'[c].pc = "done" /\ calls'[c].ret = stored[calls'[c].id])]_vars

StageRank(ev) ==
    CASE ev.stage = "downloading" -> 2 * ev.fileIndex - 1
      [] ev.stage = "decompressing" -> 2 * ev.fileIndex
      [] OTHER -> 2 * TotalFiles + 1

\* C3: the progress events of one downloadDataset run follow the stage order
\* downloading(file1), decompressing(file1)?, downloading(file2),
\* decompressing(file2)?, complete: no event of file 1 after one of file 2,
\* no decompressing event of a file before one of its downloading events, at
\* most one decompressing event per file, and no event after complete.
C3_StageOrder ==
    \A d \in Runs :
        LET e == dl[d].events
        IN  \A j \in 1..Len(e) :
                /\ e[j].stage = "complete" => j = Len(e)
                /\ \A k \in (j + 1)..Len(e) :
                      /\ StageRank(e[j]) <= StageRank(e[k])
                      /\ e[j].stage = "decompressing" => StageRank(e[j]) < StageRank(e[k])

C3_Witness ==
    \E d \in Runs :
        /\ dl[d].pc = "done"
        /\ LET e == dl[d].events
           IN  /\ \E j \in 1..Len(e) : e[j].stage = "decompressing" /\ e[j].fileIndex = 1
               /\ \E j \in 1..Len(e) : e[j].stage = "decompressing" /\ e[j].fileIndex = 2
               /\ \E j \in 1..Len(e) : e[j].stage = "downloading" /\ e[j].fileIndex = 2
                                         /\ e[j].percent > 0
               /\ Cardinality({j \in 1..Len(e) : e[j].fileIndex = 1
                                                  /\ e[j].stage = "downloading"}) >= 3

EntriesFor(list, name, field) == {j \in 1..Len(list) : list[j][field] = name}

\* C4: in a two-file batch, a non-success HTTP status or a transport error on
\* one file adds exactly one entry for that file to errors and the loop goes
\* on: both files are attempted, a file that failed is not in the returned
\* files, and a file that downloaded is in them with no error entry,
\* whichever of the two files fails.
C4_PartialFailure ==
    \A d \in Runs :
        dl[d].pc = "done" =>
            /\ Len(dl[d].outcomes) = TotalFiles
            /\ \A i \in 1..TotalFiles :
                  LET name == FilesToDownload[i]
                      errs == EntriesFor(DlResult(dl[d]).errors.list, name, "file")
                      got == EntriesFor(DlResult(dl[d]).files, name, "name")
                  IN  IF dl[d].outcomes[i] = "ok"
                      THEN Cardinality(got) = 1 /\ errs = {}
                      ELSE Cardinality(errs) = 1 /\ got = {}

C4_Witness ==
    \E d \in Runs :
        /\ dl[d].pc = "done"
        /\ dl[d].outcomes = <<"HTTP", "ok">>
        /\ Len(DlResult(dl[d]).files) = 1
        /\ DlResult(dl[d]).files[1].name = SoftGz
        /\ ~DlResult(dl[d]).errors.null

\* C9: decompressFile on an input whose output already exists returns the
\* output path (the input path without its .gz suffix) without writing; a
\* second invocation in sequence on the same input returns the same path as
\* the first and writes nothing.
C9_Idempotent ==
    /\ \A p \in DzProcs :
          dz[p].sawExists =>
              /\ dz[p].pc = "ret" /\ ~dz[p].wrote
              /\ dz[p].ret = SubSeq(dz[p].gz, 1, Len(dz[p].gz) - 1)
    /\ \A p \in Direct : \A k \in 2..Len(zhist[p]) :
          zhist[p][k - 1].ret # <<>> =>
              /\ zhist[p][k].ret = zhist[p][k - 1].ret
              /\ zhist[p][k].sawExists /\ ~zhist[p][k].wrote

C9_Witness ==
    \E p \in Direct :
        /\ Len(zhist[p]) = 2
        /\ zhist[p][1].wrote /\ zhist[p][1].ret = <<"series_matrix", ".txt">>
        /\ zhist[p][2].sawExists /\ zhist[p][2].ret = <<"series_matrix", ".txt">>

\* C10: in every reachable state, a decompressed output file that exists
\* holds the complete decompressed content, never a partially written one.
C10_NoPartialOutput ==
    \A id \in Ids : \A n \in {OutputPath(MatrixGz), OutputPath(SoftGz)} :
        disk[id][n] \in {"absent", "full"}

\* C5: for a series matrix with N data rows and N > cap (1000), the parse
\* result reports N as the number of rows seen, truncated = true, and exactly
\* cap retained rows, the first cap rows in input order.
C5_TruncationReport ==
    (mx.pc = "done" /\ mx.input > RowCap) =>
        LET res == MxResult(mx)
        IN  /\ res.geneCount = mx.input
            /\ res.hasMoreData
            /\ Len(res.expressionData) = RowCap
            /\ \A k \in 1..Len(res.expressionData) :
                  res.expressionData[k][1] = GeneOfRow(k)

\* The lines of a SOFT file that are sample section markers, in file order.
SampleMarkers(doc) == SelectSeq(doc, LAMBDA line : Len(line) > 0 /\ line[1] = "^SAMPLE")

\* The id a section marker `^KEYWORD = <id>` names: what follows the '=',
\* without the blanks around it.
MarkerId(line) ==
    LET k == FirstIndex(line, "=")
    IN  IF k = 0 THEN Undefined ELSE Trim(SubSeq(line, k + 1, Len(line)))

Contains(a, b) ==
    \E k \in 1..(Len(a) - Len(b) + 1) : SubSeq(a, k, k + Len(b) - 1) = b

MatchingRows(rows, query) ==
    {k \in 1..Len(rows) :
        \/ Contains(ToUpperCase(rows[k][1]), ToUpperCase(query))
        \/ Contains(ToUpperCase(query), ToUpperCase(rows[k][1]))}

\* C7: queryGeneExpression matches a row iff upper(rowGeneId) contains
\* upper(query) or upper(query) contains upper(rowGeneId), and when several
\* rows match, the returned geneId and values are those of the first
\* matching row in row order.
C7_FirstBidirectionalMatch ==
    (gq.pc = "done" /\ gq.expressionData # <<>>) =>
        LET rows == gq.expressionData
            matching == MatchingRows(rows, gq.geneName)
        IN  /\ ~gq.ret.null
            /\ gq.ret.found <=> matching # {}
            /\ matching # {} =>
                 LET first == CHOOSE k \in matching : \A k2 \in matching : k <= k2
                 IN  /\ gq.ret.geneId = rows[first][1]
                     /\ gq.ret.rawData = rows[first]
                     /\ gq.ret.values =
                            [j \in 1..(Len(rows[first]) - 1) |-> ParseFloat(rows[first][j + 1])]

C7_Witness ==
    /\ gq.pc = "done"
    /\ gq.geneName = <<"b", "r", "c", "a", "1">>
    /\ Len(gq.expressionData) = 3
    /\ gq.expressionData[1][1] = <<"T", "P", "5", "3">>
    /\ gq.expressionData[2][1] = <<"B", "R", "C", "A", "1", "-", "0", "0", "1">>
    /\ gq.expressionData[3][1] = <<"B", "R", "C", "A", "1">>
    /\ MatchingRows(gq.expressionData, gq.geneName) = {2, 3}
    /\ gq.ret.found
    /\ gq.ret.geneId = <<"B", "R", "C", "A", "1", "-", "0", "0", "1">>
    /\ gq.ret.values = <<Finite(250)>>

\* The columns the loop of getSampleStatistics visits.
VisitedColumns(t) ==
    {i \in 1..Len(t.samples) : i < Len(t.expressionData[1])}

\* C8: for every sample column with n >= 1 valid values, the reported
\* median is the element at index floor(n/2) of the ascending-sorted valid
\* values, with no interpolation: it is a valid value with at most
\* floor(n/2) valid values below it and more than floor(n/2) valid values
\* not above it.
C8_MedianIsUpperMiddle ==
    /\ \A k \in 1..Len(st.out) :
          LET entry == st.out[k]
              values == ValidValues(st.expressionData, entry.column)
              n == Len(values)
          IN  /\ n >= 1
              /\ entry.valueCount = n
              /\ \E j \in 1..n :
                    /\ entry.median = ToFixed2(values[j])
                    /\ Cardinality({x \in 1..n : values[x] < values[j]}) <= n \div 2
                    /\ Cardinality({x \in 1..n : values[x] <= values[j]}) > n \div 2
    /\ (st.pc = "done" /\ ~st.null) =>
          \A i \in VisitedColumns(st) :
              Len(ValidValues(st.expressionData, i)) >= 1 =>
                  \E k \in 1..Len(st.out) : st.out[k].column = i

C8_Witness ==
    /\ st.pc = "done"
    /\ Len(st.out) = 1
    /\ ValidValues(st.expressionData, 1) = <<100, 200, 300, 400>>
    /\ st.out[1].median = <<"3", ".", "0", "0">>
    /\ st.out[1].mean = <<"2", ".", "5", "0">>

\* C11: getStatistics and queryGene return a structured result for every
\* dataset state and every input and never raise; queryGene on a parsed
\* dataset returns found with the matching row's values when a row of the
\* table it searches matches, and not-found or an error otherwise.
C11_StructuredResults ==
    qa.pc = "done" =>
        /\ ~qa.threw
        /\ qa.ret.kind \in {"error", "gene", "stats"}
        /\ qa.kind # "parsed" => qa.ret.kind = "error"
        /\ (qa.op = "queryGene" /\ qa.kind = "parsed") =>
              LET matching == MatchingRows(qa.matrix.expressionData, qa.geneName)
              IN  IF matching # {}
                  THEN /\ qa.ret.found
                       /\ Len(qa.ret.values) = Len(qa.ret.samples)
                  ELSE ~qa.ret.found

\* C19: a gene lookup through the cached dataset searches all retained rows,
\* the first min(N, 1000) data rows of the matrix: not-found is reported only
\* when no retained row matches.
C19_SearchesRetainedRows ==
    (qa.pc = "done" /\ qa.op = "queryGene" /\ qa.kind = "parsed"
        /\ qa.ret.kind = "gene" /\ ~qa.ret.found) =>
            MatchingRows(mx.expressionData, qa.geneName) = {}

\* The downloadDataset runs of dataset id that have started and not ended.
ActiveRuns(id) == {d \in Runs : dl[d].id = id /\ dl[d].pc \notin {"idle", "done", "thrown"}}

\* C12: at most one download pipeline per dataset id is active at any time;
\* a second thread-creation request for an id whose background download is
\* still running does not start a second, overlapping run.
C12_OneDownloadPerId == \A id \in Ids : Cardinality(ActiveRuns(id)) <= 1

\* C13: clearCache(id) removes exactly the cache entry of id and leaves
\* every other id's entry unchanged; clearAllCache removes every entry; and
\* a getDataset(id) called while id has no entry runs the pipeline, it does
\* not return a result.
C13_ClearFrame ==
    [][/\ \A id \in Ids :
             ClearCache(id) =>
                 /\ cache'[id] = NoResult
                 /\ \A other \in Ids \ {id} : cache'[other] = cache[other]
       /\ ClearAllCache => \A id \in Ids : cache'[id] = NoResult
       /\ \A c \in Callers, id \in Ids :
             (GdStart(c, id) /\ cache[id] = NoResult) =>
                 /\ calls'[c].pc = "isDownloaded"
                 /\ ~calls'[c].hit
                 /\ calls'[c].ret = NoResult]_vars

\* GSE1 was parsed once (its decompressed matrix is on disk), its entry is
\* gone again, the entry of GSE2 is still there, and the call for GSE1 is
\* running the pipeline.
C13_Witness ==
    /\ disk["GSE1"][OutputPath(MatrixGz)] = "full"
    /\ cache["GSE1"] = NoResult
    /\ cache["GSE2"].kind = "dataset"
    /\ calls["c1"].id = "GSE1"
    /\ calls["c1"].pc = "parseM"
    /\ ~calls["c1"].hit

\* C14: getDataset(id) for a dataset that is not downloaded (no dataset
\* directory, or an empty one) returns the error 'Dataset not downloaded'
\* and leaves the cache unchanged; the cache never holds an error result, so
\* a later getDataset(id) finds no entry and runs the pipeline.
C14_NotDownloaded ==
    [][/\ \A c \in Callers :
             (GdIsDownloaded(c)
                 /\ (calls[c].id \notin dirs \/ FilesIn(calls[c].id) = {})) =>
                 /\ calls'[c].pc = "done"
                 /\ calls'[c].ret = ErrorResult("Dataset not downloaded")
                 /\ cache' = cache
       /\ \A id \in Ids : cache'[id].kind \in {"none", "dataset"}]_vars

\* The call returned the error for the directory the download has just
\* created, still empty, and nothing was cached.
C14_Witness ==
    /\ calls["c1"].pc = "done"
    /\ calls["c1"].id = "GSE1"
    /\ calls["c1"].ret = ErrorResult("Dataset not downloaded")
    /\ "GSE1" \in dirs
    /\ FilesIn("GSE1") = {}
    /\ dl["d1"].pc = "fetch"
    /\ cache["GSE1"] = NoResult

\* The positions of the complete events among the events of a run.
CompleteEvents(e) == {j \in 1..Len(e) : e[j].stage = "complete"}

\* C15: every downloadDataset run that reaches the file loop emits exactly
\* one complete event, as its last event, after both files have been
\* processed, and the counts it carries add up: downloadedFiles plus the
\* error count is totalFiles.
C15_OneCompleteEvent ==
    \A d \in Runs :
        LET e == dl[d].events
        IN  /\ dl[d].pc # "done" => CompleteEvents(e) = {}
            /\ dl[d].pc = "done" =>
                  /\ CompleteEvents(e) = {Len(e)}
                  /\ Len(dl[d].files) + Len(dl[d].errors) = TotalFiles
                  /\ e[Len(e)].downloadedFiles = Len(dl[d].files)
                  /\ e[Len(e)].errors = Len(dl[d].errors)
                  /\ e[Len(e)].downloadedFiles + e[Len(e)].errors = e[Len(e)].totalFiles

C15_Witness ==
    /\ dl["d1"].pc = "done"
    /\ dl["d1"].events[Len(dl["d1"].events)].stage = "complete"
    /\ dl["d1"].events[Len(dl["d1"].events)].downloadedFiles = 1
    /\ dl["d1"].events[Len(dl["d1"].events)].errors = 1
    /\ Len(dl["d1"].events) > 4

\* C16: when a file downloads but its decompression fails, the failure is
\* recorded only on that file's own result: the file is appended to the
\* returned files with its decompress error, errors gets no entry, the loop
\* goes on to the next file (or ends the batch), and the batch succeeds.
C16_DecompressFailureIsWarning ==
    [][\A d \in Runs :
          DlDecThrew(d) =>
              /\ dl'[d].files = Append(dl[d].files,
                                       [dl[d].info EXCEPT !.decompressError = TRUE])
              /\ dl'[d].errors = dl[d].errors
              /\ EntriesFor(dl'[d].errors, FilesToDownload[dl[d].i], "file") = {}
              /\ IF dl[d].i < TotalFiles
                 THEN dl'[d].pc = "fetch" /\ dl'[d].i = dl[d].i + 1
                 ELSE dl'[d].pc = "done"
              /\ DlResult(dl'[d]).success]_vars

C16_Witness ==
    /\ dl["d1"].pc = "done"
    /\ Len(dl["d1"].files) = 2
    /\ dl["d1"].files[1].decompressError
    /\ ~dl["d1"].files[2].decompressError
    /\ DlResult(dl["d1"]).success
    /\ DlResult(dl["d1"]).errors.null

\* C17: for every series matrix input with N data rows, the reported
\* truncation flag is true exactly when N > cap (1000); it is false for
\* N = cap and for N < cap.
C17_TruncatedIffBeyondCap ==
    mx.pc = "done" => (MxResult(mx).hasMoreData <=> mx.input > RowCap)

\* The samples whose column holds a finite number in some row.
SamplesWithValues(t) ==
    {i \in 1..Len(t.samples) : Len(ValidValues(t.expressionData, i)) >= 1}

\* C18: getSampleStatistics returns an ordered list with exactly one entry
\* for each sample whose column holds at least one finite numeric value in
\* some row and none for the others, in header order, each entry named
\* after the sample at its column position, also when rows differ in length.
C18_OneEntryPerValidSample ==
    (st.pc = "done" /\ ~st.null) =>
        LET entries == StResult(st).samples
        IN  /\ {entries[k].column : k \in 1..Len(entries)} = SamplesWithValues(st)
            /\ \A k \in 1..Len(entries) :
                  /\ entries[k].name = st.samples[entries[k].column]
                  /\ \A j \in 1..(k - 1) : entries[j].column < entries[k].column

\* The value of an attribute line `!key = value`: what follows the first
\* '=', without the blanks around it.
AttributeValue(line) == MarkerId(line)

\* A characteristics value of the form `label: content`: a label with no
\* blanks around it, the first colon, and a content.
HasLabelForm(value) ==
    LET k == FirstIndex(value, ":")
    IN  /\ k >= 2
        /\ SubSeq(value, 1, k - 1) = Trim(SubSeq(value, 1, k - 1))
        /\ Trim(SubSeq(value, k + 1, Len(value))) # <<>>

OpenedSection(doc, pos) ==
    LET kind(line) == IF StartsWith(line, <<"^PLATFORM">>) THEN "platform"
                      ELSE IF StartsWith(line, <<"^SAMPLE">>) THEN "sample"
                      ELSE IF StartsWith(line, <<"^SERIES">>) THEN "series"
                      ELSE "null"
        markers == {j \in 1..(pos - 1) : kind(doc[j]) # "null"}
    IN  IF markers = {} THEN "null"
        ELSE kind(doc[CHOOSE j \in markers : \A j2 \in markers : j >= j2])

\* The key of an attribute line `!key = value`: what stands between the '!'
\* and the first '=', without the blanks around it.
AttributeKey(line) ==
    LET k == FirstIndex(line, "=")
    IN  Trim(SubSeq(line, 2, IF k = 0 THEN Len(line) ELSE k - 1))

\* C21: an attribute line `!key = value`, split on its first '=' only, is
\* stored in the record of the section opened by the most recent marker (for
\* samples, the last sample appended) and changes no other record; before
\* any marker it changes nothing.
C21_AttributeRouting ==
    [][(sf.pc = "read" /\ sf'.pc = "read" /\ sf'.pos = sf.pos + 1
          /\ StartsWith(sf.lines[sf.pos], <<"!">>)) =>
            LET line == sf.lines[sf.pos]
                section == OpenedSection(sf.lines, sf.pos)
                key == AttributeKey(line)
                value == AttributeValue(line)
                n == Len(sf.samples)
            IN  /\ section = "null" =>
                      /\ sf'.platform = sf.platform /\ sf'.series = sf.series
                      /\ sf'.samples = sf.samples
                /\ section = "platform" =>
                      /\ sf'.platform = Put(sf.platform, key, value)
                      /\ sf'.series = sf.series /\ sf'.samples = sf.samples
                /\ section = "series" =>
                      /\ sf'.series = Put(sf.series, key, value)
                      /\ sf'.platform = sf.platform /\ sf'.samples = sf.samples
                /\ section = "sample" =>
                      /\ sf'.platform = sf.platform /\ sf'.series = sf.series
                      /\ Len(sf'.samples) = n
                      /\ \A k \in 1..(n - 1) : sf'.samples[k] = sf.samples[k]
                      /\ ~Includes(key, "characteristics") =>
                            sf'.samples[n].fields = Put(sf.samples[n].fields, key, value)]_vars

C21_Witness ==
    /\ sf.pc = "done"
    /\ Len(sf.lines) = 3
    /\ StartsWith(sf.lines[1], <<"!">>)
    /\ sf.lines[2] = <<"^SERIES", " ", "=", " ", "GSE1">>
    /\ sf.lines[3] = sf.lines[1]
    /\ sf.series = (<<"id">> :> <<"GSE1">>) @@ (<<"Sample_", "title">> :> <<"a", "=", "b">>)
    /\ sf.platform = <<>>
    /\ sf.samples = <<>>

\* The positions of the downloading events of file i among the events of a run.
DownloadingEvents(e, i) ==
    {j \in 1..Len(e) : e[j].stage = "downloading" /\ e[j].fileIndex = i}

\* C22: within one file's downloading stage the percent values of successive
\* progress events never decrease, from the initial 0 event through every
\* per-chunk event.
C22_PercentNonDecreasing ==
    \A d \in Runs : \A i \in 1..TotalFiles :
        LET e == dl[d].events
            stage == DownloadingEvents(e, i)
        IN  /\ stage # {} =>
                  e[CHOOSE j \in stage : \A j2 \in stage : j <= j2].percent = 0
            /\ \A j \in stage : \A k \in stage : j < k => e[j].percent <= e[k].percent

C22_Witness ==
    LET e == dl["d1"].events
    IN  /\ Cardinality(DownloadingEvents(e, 1)) = 3
        /\ \E j \in DownloadingEvents(e, 1) : e[j].percent = 67 /\ e[j].receivedBytes = 2
        /\ \E j \in DownloadingEvents(e, 1) : e[j].percent = 100 /\ e[j].receivedBytes = 3

\* C23: when the total size is known, the event emitted after each chunk
\* carries percent = floor(received / total * 100), received being the sum of
\* the lengths of the chunks read so far for that file.
C23_PercentIsFloor ==
    \A d \in Runs :
        LET e == dl[d].events
        IN  \A j \in 1..Len(e) :
                (e[j].stage = "downloading" /\ e[j].totalBytes # NaN) =>
                    e[j].percent = (100 * e[j].receivedBytes) \div e[j].totalBytes

\* C24: when the total size is unknown (no usable content-length), every
\* chunk read still emits a downloading progress event, which carries the
\* bytes received so far and no percent.
C24_ChunkEventWithoutTotal ==
    \A d \in Runs :
        (dl[d].pc = "read" /\ ~Truthy(dl[d].total) /\ dl[d].received > 0) =>
            LET e == dl[d].events
                last == e[Len(e)]
            IN  /\ last.stage = "downloading"
                /\ last.fileIndex = dl[d].i
                /\ last.receivedBytes = dl[d].received
                /\ last.percent = NaN

\* The progress objects among the broadcasts a run has caused.
ProgressOf(delivered) == [k \in 1..Len(delivered) |-> delivered[k].progress]

\* C25: downloads of different dataset ids running at the same time do not
\* interfere: every progress event the pipeline of id A emits is broadcast
\* once, tagged with A and with no other id, and registering or removing the
\* callback of another id B takes nothing away from what A's listeners get.
C25_NoInterference ==
    \A d \in Runs :
        /\ \A k \in 1..Len(dl[d].delivered) : dl[d].delivered[k].datasetId = dl[d].id
        /\ ProgressOf(dl[d].delivered) = dl[d].events

C25_Witness ==
    /\ dl["d1"].id = "GSE1" /\ dl["d1"].pc = "done"
    /\ dl["d2"].id = "GSE2" /\ dl["d2"].pc = "dec"
    /\ th.reqs["r1"].pc = "done"
    /\ th.callbacks = {"GSE2"}
    /\ Len(dl["d1"].delivered) >= 3
    /\ Len(dl["d2"].delivered) >= 2
    /\ dl["d2"].delivered[Len(dl["d2"].delivered)].progress.stage = "decompressing"

\* C27: every progress event emitted by a download started through thread
\* creation, its complete event included, reaches the registered broadcast
\* callback, also when two thread-creation requests for the same dataset id
\* overlap: the callback removal at the end of one run does not silence the
\* remaining events of the other.
C27_EveryEventBroadcast ==
    \A r \in Reqs :
        th.reqs[r].pc \in {"download", "done"} =>
            ProgressOf(dl[RunOf(r)].delivered) = dl[RunOf(r)].events

\* C28: when a background download started by thread creation finishes while
\* its dataset thread exists, exactly one assistant message reporting the
\* outcome (download complete, or download issues) is appended to the thread,
\* also when every file failed; when the thread was deleted meanwhile, no
\* thread is created again.
C28_OutcomeMessage ==
    [][\A r \in Reqs :
          (ThDownloaded(r) \/ ThDownloadThrew(r)) =>
              LET id == th.reqs[r].id
                  before == th.threads[id]
              IN  IF before.exists
                  THEN \E outcome \in {"complete", "issues"} :
                          th'.threads[id].messages = Append(before.messages, outcome)
                  ELSE th'.threads = th.threads]_vars

\* C30: the 'general' thread exists in every reachable state of the thread
\* manager: deleting 'general' raises and leaves the thread map unchanged,
\* deleting any other thread removes only that thread, and createThread for
\* a dataset that already has a thread leaves the thread and its messages
\* as they are.
C30_GeneralThreadKept ==
    /\ [](th.threads["general"].exists)
    /\ [][/\ ThDelete("general") =>
                (th'.threads = th.threads /\ th'.deleteStatus = 500)
          /\ \A key \in Ids :
                ThDelete(key) =>
                    /\ ~th'.threads[key].exists
                    /\ \A other \in ThreadKeys \ {key} :
                          th'.threads[other] = th.threads[other]
          /\ \A id \in Ids :
                (TmCreateThread(id) /\ th.threads[id].exists) =>
                    th'.threads = th.threads]_vars

C30_Witness ==
    /\ th.deleteStatus = 500
    /\ th.threads["general"].exists
    /\ th.threads["general"].messages = <<"chat", "chat">>
    /\ ~th.threads["GSE1"].exists
    /\ th.threads["GSE2"].exists
    /\ th.threads["GSE2"].messages = <<"created", "complete">>

\* The positions of the metadata lines of the file with n data rows that
\* hold a tab: `!Category_key<TAB>value<TAB>value...`.
TabbedMetadataLines(n) ==
    {p \in 1..MatrixLineCount(n) :
        /\ StartsWith(MatrixLine(n, p), <<"!">>)
        /\ FirstIndex(MatrixLine(n, p), TAB) # 0}

\* The category and key such a line names, and the values it lists.
CategoryAndKey(line) ==
    LET name == Split(line, TAB)[1]
        u == FirstIndex(name, "_")
    IN  <<SubSeq(name, 2, u - 1), SubSeq(name, u + 1, Len(name))>>

ValueList(line) == Tail(Split(line, TAB))

\* C29: when several metadata lines of a series matrix name the same
\* category and key, metadata[category][key] after parsing is the value list
\* of the last of them (a later line replaces the list of an earlier one),
\* and lines without a tab, such as the table begin and end lines, add no
\* entry.
C29_LastMetadataLineWins ==
    mx.pc = "done" =>
        LET lines == TabbedMetadataLines(mx.input)
            entry(p) == CategoryAndKey(MatrixLine(mx.input, p))
        IN  /\ DOMAIN MxResult(mx).metadata = {entry(p) : p \in lines}
            /\ \A p \in lines :
                  (\A p2 \in lines : entry(p2) = entry(p) => p2 <= p) =>
                      MxResult(mx).metadata[entry(p)]
                          = ValueList(MatrixLine(mx.input, p))

C29_Witness ==
    /\ mx.pc = "done"
    /\ mx.input = 2
    /\ Cardinality(TabbedMetadataLines(mx.input)) = 3
    /\ Cardinality(DOMAIN MxResult(mx).metadata) = 2
    /\ MxResult(mx).metadata[<<<<"Sample">>, <<"characteristics", "_", "ch1">>>>]
          = << <<QUOTE, "age: 1", QUOTE>>, <<QUOTE, "age: 2", QUOTE>> >>

\* A downloadDataset run of id has returned with both files downloaded and
\* decompressed.
DownloadCompleted(id) ==
    \E d \in Runs :
        /\ dl[d].id = id /\ dl[d].pc = "done"
        /\ Len(dl[d].files) = TotalFiles
        /\ \A k \in 1..Len(dl[d].files) :
              /\ ~dl[d].files[k].decompressError
              /\ dl[d].files[k].decompressed # <<>>

\* C26: a result getDataset(id) computed while downloadDataset(id) was still
\* in progress is never served after the download has completed: a
\* getDataset(id) answered from the cache once the download of id has
\* completed with both files decompressed returns a dataset whose matrix and
\* soft are both non-null.
C26_NoStaleDataset ==
    [][\A c \in Callers : \A id \in Ids :
          (GdStart(c, id) /\ DownloadCompleted(id) /\ calls'[c].pc = "done") =>
              /\ calls'[c].ret.kind = "dataset"
              /\ calls'[c].ret.matrix # "null"
              /\ calls'[c].ret.soft # "null"]_vars

=============================================================================
